---- MODULE Spec2Model ----
(***************************************************************************)
(* depspector: the package analysis pipeline (src/src/analyzers/mod.rs),   *)
(* the result cache (src/src/cache.rs), the exit status (src/src/lib.rs,   *)
(* src/src/report.rs), the ignore matching rule (src/src/util.rs) and the  *)
(* dependency classification (src/src/dependencies.rs).                    *)
(*                                                                         *)
(* Strings the code inspects character by character (issue ids) are        *)
(* sequences of one-character strings; other names are TLA+ strings.       *)
(***************************************************************************)
EXTENDS Integers, Sequences, FiniteSets, TLC

(***************************************************************************)
(* Bounds of the model.                                                    *)
(***************************************************************************)
\* number of consecutive runs of the tool over the same project
MaxRuns == 3
\* config.cache_max_age_seconds, in clock ticks
CacheMaxAge == 1

(***************************************************************************)
(* Generic helpers.                                                        *)
(***************************************************************************)
Range(s) == {s[i] : i \in 1..Len(s)}

Max(a, b) == IF a >= b THEN a ELSE b

\* str::to_lowercase, over the strings of the model
ToLowercase(name) ==
  CASE name = "EVAL" -> "eval"
    [] name = "SCRIPTS" -> "scripts"
    [] name = "HIGH" -> "high"
    [] name = "MEDIUM" -> "medium"
    [] OTHER -> name

(***************************************************************************)
(* Severity (analyzers/mod.rs).                                            *)
(***************************************************************************)
\* derive(PartialOrd, Ord) on  enum Severity { Low, Medium, High, Critical }
SeverityOrd(s) ==
  CASE s = "low" -> 0
    [] s = "medium" -> 1
    [] s = "high" -> 2
    [] s = "critical" -> 3

\* impl FromStr for Severity: anything unrecognised parses as Low
SeverityFromStr(s) ==
  CASE ToLowercase(s) = "critical" -> "critical"
    [] ToLowercase(s) = "high" -> "high"
    [] ToLowercase(s) = "medium" -> "medium"
    [] OTHER -> "low"

(***************************************************************************)
(* Issue ids and the ignore matching rule (util.rs).                       *)
(***************************************************************************)
Hyphen == "-"

\* str::contains('-')
ContainsHyphen(s) == \E i \in 1..Len(s) : s[i] = Hyphen

\* position of the rightmost hyphen; only used when there is one
LastHyphen(s) == CHOOSE i \in 1..Len(s) :
                   s[i] = Hyphen /\ \A j \in (i+1)..Len(s) : s[j] # Hyphen

\* str::rsplitn(2, '-').collect(): <<suffix, prefix>>, or <<s>> without hyphen
RSplitN2(s) ==
  IF ContainsHyphen(s)
  THEN << SubSeq(s, LastHyphen(s) + 1, Len(s)), SubSeq(s, 1, LastHyphen(s) - 1) >>
  ELSE << s >>

matches_ignore_id(issue_id, ignore_id) ==
  IF issue_id = ignore_id THEN TRUE
  ELSE IF ContainsHyphen(issue_id) /\ ContainsHyphen(ignore_id)
       THEN LET issue_parts == RSplitN2(issue_id)
                ignore_parts == RSplitN2(ignore_id)
            IN IF Len(issue_parts) = 2 /\ Len(ignore_parts) = 2
               THEN issue_parts[2] = ignore_parts[2]
               ELSE FALSE
       ELSE FALSE

(***************************************************************************)
(* Inputs of the pipeline model: packages, analyzers, emitted issues.      *)
(***************************************************************************)
\* ctx.dependency_graph.discovered_packages(), one entry per name@version
Pkgs == {"p1", "p2"}


\* ids as generate_issue_id builds them: <pkg_prefix>-<analyzer>-<hash>
IdE1 == <<"P", "-", "E", "-", "1">>
IdE2 == <<"P", "-", "E", "-", "2">>
IdS1 == <<"P", "-", "S", "-", "1">>
IdQ1 == <<"Q", "-", "S", "-", "1">>
\* a user-supplied ignore entry without any hyphen
IdX == <<"X">>

\* struct Issue, restricted to the fields the pipeline reads
MkIssue(id, type, sev) == [id |-> id, issue_type |-> type, severity |-> sev]

\* What the analyzers emit for a package, by the content of its directory
\* (content 0 of any package: nothing is found).
Emitted(pkg, content) ==
  IF pkg = "p1"
  THEN CASE content = 1 -> << MkIssue(IdE1, "eval", "high"),
                               MkIssue(IdS1, "scripts", "low"),
                               MkIssue(IdE1, "eval", "critical") >>
         [] content = 2 -> << MkIssue(IdE2, "eval", "critical") >>
         [] OTHER -> << >>
  ELSE CASE content = 1 -> << MkIssue(IdQ1, "scripts", "medium") >>
         [] OTHER -> << >>

Contents(pkg) == IF pkg = "p1" THEN {0, 1, 2} ELSE {0, 1}

\* the ignore lists a run can be given (config.ignore_issues ++ cli.ignore_issue)
IgnoreLists == { << >>, << IdE2, IdS1, IdX >> }

\* the analyzer sets a run can be given (config / --analyzer)
ActiveSets == { {"eval", "scripts"}, {"eval"} }

\* config.analyzers[name].severity, for the analyzers that have one
NoOverride == [analyzer |-> "none", severity |-> "none"]
SeverityOverrides == { NoOverride, [analyzer |-> "eval", severity |-> "MEDIUM"] }

\* config.exit_with_failure_on_level, when set
ExitLevels == {"off", "low", "medium", "high", "HIGH", "critical"}

NoEntry == [present |-> FALSE]

\* Option<T>
None == [some |-> FALSE]
Some(x) == [some |-> TRUE, value |-> x]

(***************************************************************************)
(* Trust score (analyzers/mod.rs).  Scores are in thousandths of a point;  *)
(* ln(1 + count) is tabulated in thousandths.                              *)
(***************************************************************************)
LnMilli(n) ==
  CASE n = 1 -> 0
    [] n = 2 -> 693
    [] n = 3 -> 1099
    [] n = 4 -> 1386
    [] n = 5 -> 1609
    [] n = 6 -> 1792
    [] n = 7 -> 1946
    [] n = 8 -> 2079
    [] n = 9 -> 2197
    [] n = 10 -> 2303
    [] OTHER -> 2398

CRITICAL_PENALTY == 15
HIGH_PENALTY == 8
MEDIUM_PENALTY == 3
LOW_PENALTY == 1

calculate_penalty_with_diminishing_returns(count, base_penalty) ==
  IF count = 0 THEN 0 ELSE LnMilli(1 + count) * base_penalty * 3

CountSeverity(issues, sev) ==
  Cardinality({i \in 1..Len(issues) : issues[i].severity = sev})

TrustScoreCalculateUnclamped(issues) ==
  LET critical_count == CountSeverity(issues, "critical")
      high_count == CountSeverity(issues, "high")
      medium_count == CountSeverity(issues, "medium")
      low_count == CountSeverity(issues, "low")
      penalty ==
        calculate_penalty_with_diminishing_returns(critical_count, CRITICAL_PENALTY)
        + calculate_penalty_with_diminishing_returns(high_count, HIGH_PENALTY)
        + calculate_penalty_with_diminishing_returns(medium_count, MEDIUM_PENALTY)
        + calculate_penalty_with_diminishing_returns(low_count, LOW_PENALTY)
  IN [score |-> 100000 - penalty,
      critical_count |-> critical_count, high_count |-> high_count,
      medium_count |-> medium_count, low_count |-> low_count]

TrustScoreCalculate(issues) ==
  LET critical_count == CountSeverity(issues, "critical")
      high_count == CountSeverity(issues, "high")
      medium_count == CountSeverity(issues, "medium")
      low_count == CountSeverity(issues, "low")
      penalty ==
        calculate_penalty_with_diminishing_returns(critical_count, CRITICAL_PENALTY)
        + calculate_penalty_with_diminishing_returns(high_count, HIGH_PENALTY)
        + calculate_penalty_with_diminishing_returns(medium_count, MEDIUM_PENALTY)
        + calculate_penalty_with_diminishing_returns(low_count, LOW_PENALTY)
  IN [score |-> Max(100000 - penalty, 0),
      critical_count |-> critical_count, high_count |-> high_count,
      medium_count |-> medium_count, low_count |-> low_count]

(***************************************************************************)
(* State.                                                                  *)
(***************************************************************************)
VARIABLES
  \* --- the project on disk and the invocation ---
  content,            \* package -> content of its directory
  now,                \* SystemTime::now(), in ticks
  entries,            \* PackageCache.entries: package -> CacheEntry or NoEntry
  cache_enabled,      \* cli.cache: ctx.cache is Some
  active_analyzers,   \* Analyzer.active_analyzers
  ignore_issues,      \* ctx.ignore_issues
  severity_override,  \* config.analyzers[..].severity
  fail_fast,          \* ctx.fail_fast
  exit_level,         \* config.exit_with_failure_on_level
  \* --- one run of analyze_packages / run ---
  run,                \* number of the current run
  changed,            \* the environment changed since the last run
  pc,                 \* position of the current run
  scanned,            \* packages the cache scan has handled
  cached_results,     \* check_cache_for_packages: cached_results
  work_items,         \* check_cache_for_packages: work_items
  analyzed,           \* analyze_packages: analyzed (completion order)
  results,            \* the vector analyze_packages returns
  ignored_ids,        \* ctx.ignored_ids
  exit_status,        \* "ok" | "failure" once run() returned
  \* --- history, for properties that relate two runs ---
  prev                \* the previous run: its inputs and its merged results

VARIABLES
  \* --- DependencyGraph::build ---
  manifest,           \* the root lists and the installed packages' lists
  dpc,                \* position of build
  queue,              \* VecDeque<(String, DependencyType)>
  visited,            \* HashSet<String>
  package_types,      \* HashMap<String, DependencyType>
  \* --- history of build ---
  expansions,         \* the first classification of every package
  redequeues          \* every dequeue of an already visited package

depVars == << manifest, dpc, queue, visited, package_types, expansions, redequeues >>

VARIABLES
  \* --- the process and the disk (registry.rs) ---
  global_cache,       \* GLOBAL_METADATA_CACHE: "name@version" -> PackageMetadata
  disk,               \* <cache_dir>/registry/metadata/<name>@<version>.json
  \* --- one scan: Prefetcher::prefetch and the network analyzers ---
  scans,              \* scans started in this process
  offline,            \* Analyzer.offline
  npc,                \* position of the scan
  packages,           \* the work items' PackageIds, in order
  metadata,           \* PrefetchedData.metadata: name -> PackageMetadata
  vulnerabilities,    \* PrefetchedData.vulnerabilities: "name@version" -> list
  names_left,         \* prefetch_metadata: the names still to fetch
  fetched,            \* prefetch_metadata: the results collected so far
  next_chunk,         \* prefetch_cves: the next chunk, counted from 0
  net_issues,         \* per work item, the analyzers run so far with their issues
  \* --- history of the network side ---
  last_fetch,         \* the most recent Registry::get_package call
  last_lookup,        \* the most recent metadata lookup
  osv_log             \* prefetch_cves: what happened to every chunk

netVars == << global_cache, disk, scans, offline, npc, packages, metadata, vulnerabilities,
              names_left, fetched, next_chunk, net_issues, last_fetch, last_lookup,
              osv_log >>

pipeVars == << content, now, entries, cache_enabled, active_analyzers, ignore_issues,
               severity_override, fail_fast, exit_level, run, changed, pc, scanned,
               cached_results, work_items, analyzed, results, ignored_ids,
               exit_status, prev >>

\* what the steps of the pipeline leave alone

VARIABLES
  \* --- analyze_file_with_package on one file ---
  source_file,        \* the file: its size, its syntax tree, whether it parses slowly
  file_config,        \* config.max_file_size, config.ast_timeout_ms
  fpc,                \* position of the file analysis
  parsed_ast,         \* Option<ParsedAst> of the FileContext
  next_analyzer,      \* the file analyzer the flat_map is at
  file_runs,          \* the analyzers run so far, with what they saw and reported
  \* --- history of the file analysis ---
  parse_count         \* how often the file's source has been parsed

fileVars == << source_file, file_config, fpc, parsed_ast, next_analyzer, file_runs,
               parse_count >>

VARIABLES
  \* --- ParsedAst::build_variable_map_internal on one file ---
  assignments,        \* self.assignments, in source order
  var_map,            \* name -> resolved string
  obj_map,            \* name -> resolved (property, value) pairs
  next_assign,        \* the assignment the loop is at
  vpc,                \* position of the construction
  \* --- history of the construction ---
  resolutions         \* per assignment processed, what its value resolved to

varMapVars == << assignments, var_map, obj_map, next_assign, vpc, resolutions >>

VARIABLES
  \* --- TrustScore::calculate on one issue list ---
  score_issues,       \* the issues passed to calculate
  trust_score,        \* the TrustScore returned, once calculated
  spc                 \* position of the calculation

scoreVars == << score_issues, trust_score, spc >>

VARIABLES
  \* --- generate_issue_id on one detection ---
  id_input,           \* analyzer, file_path, line, message, package_name
  issue_id,           \* the ID returned, once generated
  ipc                 \* position of the call

idVars == << id_input, issue_id, ipc >>

nonPipeVars == << depVars, netVars, fileVars, varMapVars, scoreVars, idVars >>

\* what the steps of the dependency classification leave alone
nonDepVars == << pipeVars, netVars, fileVars, varMapVars, scoreVars, idVars >>

\* what the steps of the network side leave alone
nonNetVars == << pipeVars, depVars, fileVars, varMapVars, scoreVars, idVars >>

\* what the steps of the file analysis leave alone
nonFileVars == << pipeVars, depVars, netVars, varMapVars, scoreVars, idVars >>

\* what the construction of the variable map leaves alone
nonVarMapVars == << pipeVars, depVars, netVars, fileVars, scoreVars, idVars >>

\* what the trust score calculation leaves alone
nonScoreVars == << pipeVars, depVars, netVars, fileVars, varMapVars, idVars >>

\* what the generation of an issue ID leaves alone
nonIdVars == << pipeVars, depVars, netVars, fileVars, varMapVars, scoreVars >>

(***************************************************************************)
(* Result cache (cache.rs).                                                *)
(***************************************************************************)
\* PackageCache::compute_hash: the digest of the text of the directory's
\* .js/.mjs/.ts files (the content); a digest is identified with the text it
\* is computed over (no collisions)
compute_hash(pkg_content) == << "sha256", pkg_content >>

has_changed_ignoring_hash(entry, pkg_content) == ~entry.present

\* PackageCache::has_changed (the entry's key is name@version, so the stored
\* version always equals the version asked for)
has_changed(entry, pkg_content) ==
  IF entry.present
  THEN compute_hash(pkg_content) # entry.content_hash
  ELSE TRUE

\* PackageCache::get_if_fresh, whose body is not among the sources: the
\* freshness gate of the result cache as specified
get_if_fresh(entry, pkg_content, clock, max_age) ==
  IF ~has_changed(entry, pkg_content) /\ clock - entry.timestamp <= max_age
  THEN Some(entry.results[1])
  ELSE None

\* PackageCache::update_entry
update_entry(pkg_content, new_results, clock) ==
  [present |-> TRUE, content_hash |-> compute_hash(pkg_content),
   results |-> new_results, timestamp |-> clock]

(***************************************************************************)
(* Per-package analysis (analyzers/mod.rs).                                *)
(***************************************************************************)
\* registration order of Analyzer::new, for the analyzers the model exercises:
\* a file analyzer and a package analyzer
FileAnalyzerOrder == << "eval" >>
PackageAnalyzerOrder == << "scripts" >>

\* eq_ignore_ascii_case over analyzer names
EqIgnoreAsciiCase(a, b) == ToLowercase(a) = ToLowercase(b)

\* config.get_analyzer_severity + apply_severity_override
apply_severity_override(issues, analyzer_name, ovr) ==
  IF ovr.analyzer = analyzer_name
  THEN [k \in 1..Len(issues) |->
          [issues[k] EXCEPT !.severity = SeverityFromStr(ovr.severity)]]
  ELSE issues

\* a.analyze(&context) of one analyzer
AnalyzerOutput(pkg, pkg_content, analyzer_name) ==
  SelectSeq(Emitted(pkg, pkg_content), LAMBDA i : i.issue_type = analyzer_name)

RECURSIVE RunAnalyzers(_, _, _, _, _)
\* .iter().flat_map(|a| apply_severity_override(a.analyze(..), a.name(), config))
\* over the registered analyzers of one kind, in registration order
RunAnalyzers(order, pkg, pkg_content, act, ovr) ==
  IF order = << >> THEN << >>
  ELSE (IF Head(order) \in act
        THEN apply_severity_override(
               AnalyzerOutput(pkg, pkg_content, Head(order)), Head(order), ovr)
        ELSE << >>)
       \o RunAnalyzers(Tail(order), pkg, pkg_content, act, ovr)

\* <[String]>::contains
IgnoreContains(ignore, id) == \E k \in 1..Len(ignore) : ignore[k] = id

\* the ids a retain pass over `issues` inserts into ctx.ignored_ids
IgnoredAmong(issues, ignore) ==
  {issues[k].id : k \in {j \in 1..Len(issues) : IgnoreContains(ignore, issues[j].id)}}

\* Analyzer::analyze_package_with_benchmark
analyze_package(pkg, pkg_content, act, ovr) ==
  RunAnalyzers(PackageAnalyzerOrder, pkg, pkg_content, act, ovr)

\* Analyzer::analyze_file_with_package, over the files of the package
analyze_file_with_package(pkg, pkg_content, act, ovr) ==
  RunAnalyzers(FileAnalyzerOrder, pkg, pkg_content, act, ovr)

\* Analyzer::analyze_files_with_benchmark: file_issues.retain(..)
analyze_files(pkg, pkg_content, act, ovr, ignore) ==
  SelectSeq(analyze_file_with_package(pkg, pkg_content, act, ovr),
            LAMBDA i : ~IgnoreContains(ignore, i.id))

RECURSIVE RetainKeepingDuplicates(_, _, _)
RetainKeepingDuplicates(issues, ignore, seen_ids) ==
  IF issues = << >> THEN << >>
  ELSE IF IgnoreContains(ignore, Head(issues).id)
       THEN RetainKeepingDuplicates(Tail(issues), ignore, seen_ids)
       ELSE << Head(issues) >> \o RetainKeepingDuplicates(Tail(issues), ignore, seen_ids)

RECURSIVE RetainIssues(_, _, _)
\* all_issues.retain(..) of analyze_single_package: ignore filter, then
\* seen_ids.insert(id), which is false for an id seen before
RetainIssues(issues, ignore, seen_ids) ==
  IF issues = << >> THEN << >>
  ELSE IF IgnoreContains(ignore, Head(issues).id)
       THEN RetainIssues(Tail(issues), ignore, seen_ids)
       ELSE IF Head(issues).id \in seen_ids
            THEN RetainIssues(Tail(issues), ignore, seen_ids)
            ELSE << Head(issues) >>
                 \o RetainIssues(Tail(issues), ignore, seen_ids \cup {Head(issues).id})

\* all_issues of analyze_single_package before the retain pass
AllIssues(pkg, pkg_content, act, ovr, ignore) ==
  analyze_package(pkg, pkg_content, act, ovr)
  \o analyze_files(pkg, pkg_content, act, ovr, ignore)

\* the AnalysisResult analyze_single_package builds
FreshResult(pkg, pkg_content, act, ovr, ignore) ==
  LET all_issues == RetainIssues(AllIssues(pkg, pkg_content, act, ovr, ignore), ignore, {})
  IN [package |-> pkg, issues |-> all_issues,
      trust_score |-> TrustScoreCalculate(all_issues), is_from_cache |-> FALSE]

\* the ids analyze_single_package records in ctx.ignored_ids
FreshIgnored(pkg, pkg_content, act, ovr, ignore) ==
  IgnoredAmong(analyze_file_with_package(pkg, pkg_content, act, ovr), ignore)
  \cup IgnoredAmong(AllIssues(pkg, pkg_content, act, ovr, ignore), ignore)

(***************************************************************************)
(* Cache scan (Analyzer::check_cache_for_packages).                        *)
(***************************************************************************)
\* filtered_issues: the cached issues whose type is an active analyzer
FilteredIssues(cached_issues, act) ==
  SelectSeq(cached_issues,
            LAMBDA i : \E a \in act : EqIgnoreAsciiCase(a, i.issue_type))

\* cached_analyzer_types
CachedAnalyzerTypes(filtered) == {ToLowercase(filtered[k].issue_type) : k \in 1..Len(filtered)}

MissingAnalyzersNone(filtered, act) == {}

\* missing_analyzers
MissingAnalyzers(filtered, act) ==
  {a \in act : ToLowercase(a) \notin CachedAnalyzerTypes(filtered)}

\* the lookup of one package: Some(result served from the cache), or None
\* when the package becomes a work item
CacheLookup(pkg) ==
  IF cache_enabled
  THEN LET cached == get_if_fresh(entries[pkg], content[pkg], now, CacheMaxAge)
       IN IF cached.some
          THEN LET filtered == FilteredIssues(cached.value.issues, active_analyzers)
               IN IF MissingAnalyzers(filtered, active_analyzers) = {}
                  THEN Some([cached.value EXCEPT !.issues = filtered,
                                                 !.is_from_cache = TRUE])
                  ELSE None
          ELSE None
  ELSE None

\* the body of packages.par_iter().for_each(..) for one package; the pool
\* runs the bodies in any order
CheckCachePackage(pkg) ==
  /\ pc = "scan"
  /\ pkg \notin scanned
  /\ scanned' = scanned \cup {pkg}
  /\ LET hit == CacheLookup(pkg)
     IN IF hit.some
        THEN /\ cached_results' = Append(cached_results, hit.value)
             /\ UNCHANGED work_items
        ELSE /\ work_items' = Append(work_items, pkg)
             /\ UNCHANGED cached_results
  /\ UNCHANGED << content, now, entries, cache_enabled, active_analyzers, ignore_issues,
                  severity_override, fail_fast, exit_level, run, changed, pc, analyzed,
                  results, ignored_ids, exit_status, prev >>
  /\ UNCHANGED nonPipeVars

\* Analyzer::prefetch_data, between the scan and the analysis
PrefetchData ==
  /\ pc = "scan"
  /\ scanned = Pkgs
  /\ pc' = "analyze"
  /\ UNCHANGED << content, now, entries, cache_enabled, active_analyzers, ignore_issues,
                  severity_override, fail_fast, exit_level, run, changed, scanned,
                  cached_results, work_items, analyzed, results, ignored_ids,
                  exit_status, prev >>
  /\ UNCHANGED nonPipeVars

AnalyzedPackages == {analyzed[k].package : k \in 1..Len(analyzed)}

\* Analyzer::analyze_single_package for one work item; buffer_unordered
\* yields the results in completion order
AnalyzeSinglePackage(pkg) ==
  /\ pc = "analyze"
  /\ pkg \in Range(work_items)
  /\ pkg \notin AnalyzedPackages
  /\ LET result == FreshResult(pkg, content[pkg], active_analyzers,
                               severity_override, ignore_issues)
     IN /\ analyzed' = Append(analyzed, result)
        /\ entries' = IF cache_enabled
                      THEN [entries EXCEPT ![pkg] =
                              update_entry(content[pkg], << result >>, now)]
                      ELSE entries
  /\ ignored_ids' = ignored_ids \cup FreshIgnored(pkg, content[pkg], active_analyzers,
                                                  severity_override, ignore_issues)
  /\ UNCHANGED << content, now, cache_enabled, active_analyzers, ignore_issues,
                  severity_override, fail_fast, exit_level, run, changed, pc, scanned,
                  cached_results, work_items, results, exit_status, prev >>
  /\ UNCHANGED nonPipeVars

(***************************************************************************)
(* Merge and exit status.                                                  *)
(***************************************************************************)
\* results.iter().any(|r| !r.issues.is_empty())
AnyIssues(rs) == \E k \in 1..Len(rs) : rs[k].issues # << >>

\* the tail of analyze_packages: append, then the fail_fast truncation
Merged(cached, fresh, ff) ==
  LET all == cached \o fresh
  IN IF ff /\ AnyIssues(all) THEN SubSeq(all, 1, 1) ELSE all

MergeResults(ff) ==
  /\ pc = "analyze"
  /\ AnalyzedPackages = Range(work_items)
  /\ fail_fast' = ff
  /\ results' = Merged(cached_results, analyzed, ff)
  /\ pc' = "exit"
  /\ UNCHANGED << content, now, entries, cache_enabled, active_analyzers, ignore_issues,
                  severity_override, exit_level, run, changed, scanned, cached_results,
                  work_items, analyzed, ignored_ids, exit_status, prev >>
  /\ UNCHANGED nonPipeVars

has_issues_above_level(rs, level) ==
  LET min_severity == SeverityFromStr(level)
  IN \E k \in 1..Len(rs) : \E j \in 1..Len(rs[k].issues) :
       SeverityOrd(rs[k].issues[j].severity) > SeverityOrd(min_severity)

\* Reporter::has_issues_at_level
has_issues_at_level(rs, level) ==
  LET min_severity == SeverityFromStr(level)
  IN \E k \in 1..Len(rs) : \E j \in 1..Len(rs[k].issues) :
       SeverityOrd(rs[k].issues[j].severity) >= SeverityOrd(min_severity)

\* config.exit_with_failure_on_level.as_deref().unwrap_or("high")
EffectiveExitLevel(level) == IF level = "unset" THEN "high" ELSE level

\* the outcome of every package in the merged vector of a run
Outcome(cached, fresh) ==
  LET all == cached \o fresh
  IN [p \in {all[k].package : k \in 1..Len(all)} |->
        LET r == all[CHOOSE k \in 1..Len(all) : all[k].package = p]
        IN [ids |-> {r.issues[j].id : j \in 1..Len(r.issues)},
            issues |-> r.issues,
            trust_score |-> r.trust_score,
            is_from_cache |-> r.is_from_cache]]

\* the end of run(): the exit status
ExitRun(level) ==
  /\ pc = "exit"
  /\ exit_level' = level
  /\ exit_status' = IF EffectiveExitLevel(level) # "off"
                       /\ has_issues_at_level(results, EffectiveExitLevel(level))
                    THEN "failure" ELSE "ok"
  /\ pc' = "done"
  /\ prev' = [valid |-> TRUE, content |-> content, now |-> now,
              active |-> active_analyzers,
              ignore |-> ignore_issues, cache_enabled |-> cache_enabled,
              outcome |-> Outcome(cached_results, analyzed)]
  /\ UNCHANGED << content, now, entries, cache_enabled, active_analyzers, ignore_issues,
                  severity_override, fail_fast, run, changed, scanned, cached_results,
                  work_items, analyzed, results, ignored_ids >>
  /\ UNCHANGED nonPipeVars

(***************************************************************************)
(* The environment between two runs, and the start of the next run.        *)
(***************************************************************************)
\* one change of the environment is explored between two consecutive runs;
\* changes add up over the runs
BetweenRuns == pc = "done" /\ run < MaxRuns /\ ~changed

\* files of a package directory are edited or replaced
EditSource(pkg, c) ==
  /\ BetweenRuns
  /\ c # content[pkg]
  /\ content' = [content EXCEPT ![pkg] = c]
  /\ changed' = TRUE
  /\ UNCHANGED << now, entries, cache_enabled, active_analyzers, ignore_issues,
                  severity_override, fail_fast, exit_level, run, pc, scanned,
                  cached_results, work_items, analyzed, results, ignored_ids,
                  exit_status, prev >>
  /\ UNCHANGED nonPipeVars

\* the next run is started with another --analyzer selection
SetActiveAnalyzers(act) ==
  /\ BetweenRuns
  /\ act # active_analyzers
  /\ active_analyzers' = act
  /\ changed' = TRUE
  /\ UNCHANGED << content, now, entries, cache_enabled, ignore_issues,
                  severity_override, fail_fast, exit_level, run, pc, scanned,
                  cached_results, work_items, analyzed, results, ignored_ids,
                  exit_status, prev >>
  /\ UNCHANGED nonPipeVars

\* the next run is started with another ignore list
SetIgnoreIssues(ignore) ==
  /\ BetweenRuns
  /\ ignore # ignore_issues
  /\ ignore_issues' = ignore
  /\ changed' = TRUE
  /\ UNCHANGED << content, now, entries, cache_enabled, active_analyzers,
                  severity_override, fail_fast, exit_level, run, pc, scanned,
                  cached_results, work_items, analyzed, results, ignored_ids,
                  exit_status, prev >>
  /\ UNCHANGED nonPipeVars

\* time passes
Tick(d) ==
  /\ BetweenRuns
  /\ now' = now + d
  /\ changed' = TRUE
  /\ UNCHANGED << content, entries, cache_enabled, active_analyzers, ignore_issues,
                  severity_override, fail_fast, exit_level, run, pc, scanned,
                  cached_results, work_items, analyzed, results, ignored_ids,
                  exit_status, prev >>
  /\ UNCHANGED nonPipeVars

\* run() is entered again: PackageCache::new loads what update_entry saved
NextRun ==
  /\ pc = "done"
  /\ run < MaxRuns
  /\ run' = run + 1
  /\ changed' = FALSE
  /\ pc' = "scan"
  /\ scanned' = {}
  /\ cached_results' = << >>
  /\ work_items' = << >>
  /\ analyzed' = << >>
  /\ results' = << >>
  /\ ignored_ids' = {}
  /\ exit_status' = "none"
  /\ fail_fast' = FALSE
  /\ exit_level' = "unset"
  /\ UNCHANGED << content, now, entries, cache_enabled, active_analyzers,
                  ignore_issues, severity_override, prev >>
  /\ UNCHANGED nonPipeVars

(***************************************************************************)
(* The pipeline specification.                                             *)
(***************************************************************************)
PipeInit ==
  /\ content \in {f \in [Pkgs -> 0..2] : \A p \in Pkgs : f[p] \in Contents(p)}
  /\ now = 0
  /\ entries = [p \in Pkgs |-> NoEntry]
  /\ cache_enabled \in BOOLEAN
  /\ active_analyzers \in ActiveSets
  /\ ignore_issues \in IgnoreLists
  /\ severity_override \in SeverityOverrides
  /\ fail_fast = FALSE
  /\ exit_level = "unset"
  /\ run = 1
  /\ changed = FALSE
  /\ pc = "scan"
  /\ scanned = {}
  /\ cached_results = << >>
  /\ work_items = << >>
  /\ analyzed = << >>
  /\ results = << >>
  /\ ignored_ids = {}
  /\ exit_status = "none"
  /\ prev = [valid |-> FALSE]

PipeNext ==
  \/ \E pkg \in Pkgs : CheckCachePackage(pkg)
  \/ PrefetchData
  \/ \E pkg \in Pkgs : AnalyzeSinglePackage(pkg)
  \/ \E ff \in BOOLEAN : MergeResults(ff)
  \/ \E level \in ExitLevels \cup {"unset"} : ExitRun(level)
  \/ \E pkg \in Pkgs : \E c \in Contents(pkg) : EditSource(pkg, c)
  \/ \E act \in ActiveSets : SetActiveAnalyzers(act)
  \/ \E ignore \in IgnoreLists : SetIgnoreIssues(ignore)
  \/ \E d \in 1..(CacheMaxAge + 1) : Tick(d)
  \/ NextRun

vars == << pipeVars, depVars, netVars, fileVars, varMapVars, scoreVars, idVars >>

(***************************************************************************)
(* Dependency classification (dependencies.rs, DependencyGraph::build).    *)
(* The manifest is the root package.json's four lists (after the workspace *)
(* merge) and the four lists of every package found under node_modules.    *)
(* A list holds a name once; the order of a list is the order of the JSON  *)
(* object's keys and of the directory walk, so the model lets every        *)
(* iteration take the names in any order.                                  *)
(***************************************************************************)
MaxRoots == 2
MaxEdges == 2

\* the package names that can stand in a list and in the queue
Names == {"a", "b", "c", "d"}

\* the names of the manifests that are enumerated exhaustively
ListedNames == {"a", "b", "c"}

Kinds == {"dependencies", "optionalDependencies", "peerDependencies", "devDependencies"}

RootEntries == Kinds \X ListedNames

\* the lists of the installed packages of these manifests; a list that
\* holds the package's own name is left to the manifests of CyclicManifests
EdgeEntries == {e \in ListedNames \X Kinds \X ListedNames : e[1] # e[3]}

\* the subsets of S with at most n elements
RECURSIVE SubsetsUpTo(_, _)
SubsetsUpTo(S, n) ==
  IF n = 0 THEN {{}}
  ELSE LET smaller == SubsetsUpTo(S, n - 1)
       IN  smaller \cup {T \cup {x} : T \in smaller, x \in S}

\* every order in which a list holding the names of S can be iterated
Orders(S) ==
  {q \in [1..Cardinality(S) -> S] : \A i, j \in 1..Cardinality(S) : q[i] = q[j] => i = j}

RootList(m, kind) == {e[2] : e \in {r \in m.roots : r[1] = kind}}

\* all_packages.get(name): the package was found under node_modules
Installed(m, name) == \E e \in m.edges : e[1] = name

PackageList(m, name, kind) ==
  {e[3] : e \in {x \in m.edges : x[1] = name /\ x[2] = kind}}

Entry(name, type) == [name |-> name, type |-> type]

\* The classification treats names alike: renaming the packages of a manifest
\* renames the classification.  Of the manifests that differ by a renaming
\* only those are kept whose names come in the order of their signatures (the
\* root lists holding the name, the number of names in the package's own
\* lists, the number of lists of packages holding the name).
NameOrder == << "a", "b", "c" >>

KindWeight(kind) ==
  CASE kind = "dependencies" -> 8
    [] kind = "optionalDependencies" -> 4
    [] kind = "peerDependencies" -> 2
    [] OTHER -> 1

RECURSIVE SumWeights(_)
SumWeights(kinds) ==
  IF kinds = {} THEN 0
  ELSE LET k == CHOOSE x \in kinds : TRUE
       IN  KindWeight(k) + SumWeights(kinds \ {k})

Signature(m, name) ==
  SumWeights({r[1] : r \in {x \in m.roots : x[2] = name}}) * 10000
  + Cardinality({e \in m.edges : e[1] = name}) * 100
  + Cardinality({e \in m.edges : e[3] = name})

OneOfEachRenaming(m) ==
  \A i \in 1..(Len(NameOrder) - 1) :
    Signature(m, NameOrder[i]) >= Signature(m, NameOrder[i + 1])

\* for dep in list { if keep(dep) { queue.push_back((dep, type)) } }
PushAll(order, keep, type) ==
  LET kept == SelectSeq(order, LAMBDA d : d \in keep)
  IN  [i \in 1..Len(kept) |-> Entry(kept[i], type)]

\* the matches! of the upgrade, without the pair (Optional, Peer)
should_upgrade_without_optional_to_peer(existing_type, dep_type) ==
  << existing_type, dep_type >> \in
    { << "dev", "direct" >>, << "dev", "optional" >>, << "dev", "peer" >>,
      << "optional", "direct" >>, << "peer", "direct" >> }

\* Upgrade priority: Direct > Peer > Optional > Dev
should_upgrade(existing_type, dep_type) ==
  << existing_type, dep_type >> \in
    { << "dev", "direct" >>, << "dev", "optional" >>, << "dev", "peer" >>,
      << "optional", "direct" >>, << "optional", "peer" >>,
      << "peer", "direct" >> }

\* the child type, with the parent's type handed to devDependencies too
child_type_inheriting_dev(dep_type, kind) ==
  CASE kind = "dependencies" -> dep_type
    [] kind = "optionalDependencies" -> IF dep_type = "direct" THEN "optional" ELSE dep_type
    [] kind = "peerDependencies" -> IF dep_type = "direct" THEN "peer" ELSE dep_type
    [] OTHER -> dep_type

\* the type given to the names of one list of a package classified dep_type
child_type(dep_type, kind) ==
  CASE kind = "dependencies" -> dep_type
    [] kind = "optionalDependencies" -> IF dep_type = "direct" THEN "optional" ELSE dep_type
    [] kind = "peerDependencies" -> IF dep_type = "direct" THEN "peer" ELSE dep_type
    [] OTHER -> "dev"

\* the four root loops that fill the queue
SeedQueue ==
  /\ dpc = "seed"
  /\ LET root_deps == RootList(manifest, "dependencies")
         root_optional_deps == RootList(manifest, "optionalDependencies")
         root_dev_deps == RootList(manifest, "devDependencies")
         root_peer_deps == RootList(manifest, "peerDependencies")
     IN  \E od \in Orders(root_deps), oo \in Orders(root_optional_deps),
            ov \in Orders(root_dev_deps), op \in Orders(root_peer_deps) :
           queue' = PushAll(od, Names, "direct")
                    \o PushAll(oo, Names \ root_deps, "optional")
                    \o PushAll(ov, Names \ (root_deps \cup root_optional_deps), "dev")
                    \o PushAll(op, Names \ (root_deps \cup root_optional_deps
                                            \cup root_dev_deps), "peer")
  /\ dpc' = "bfs"
  /\ UNCHANGED << manifest, visited, package_types, expansions, redequeues >>
  /\ UNCHANGED nonDepVars

\* pop_front of a name that is already visited, without the continue: after
\* the upgrade the lists of the package are enqueued again
DequeueVisitedReexpanding ==
  /\ dpc = "bfs"
  /\ queue # << >>
  /\ LET pkg_name == Head(queue).name
         dep_type == Head(queue).type
         open == Names \ visited
         list(kind) == PackageList(manifest, pkg_name, kind)
     IN  /\ pkg_name \in visited
         /\ package_types' =
              IF pkg_name \in DOMAIN package_types
                 /\ should_upgrade(package_types[pkg_name], dep_type)
              THEN [package_types EXCEPT ![pkg_name] = dep_type]
              ELSE package_types
         /\ redequeues' = redequeues \cup
              {[name |-> pkg_name, existing |-> package_types[pkg_name],
                dequeued |-> dep_type, recorded |-> package_types'[pkg_name]]}
         /\ \E od \in Orders(list("dependencies")),
               oo \in Orders(list("optionalDependencies")),
               op \in Orders(list("peerDependencies")),
               ov \in Orders(list("devDependencies")) :
              LET pushed ==
                    IF Installed(manifest, pkg_name)
                    THEN PushAll(od, open, child_type(dep_type, "dependencies"))
                         \o PushAll(oo, open, child_type(dep_type, "optionalDependencies"))
                         \o PushAll(op, open, child_type(dep_type, "peerDependencies"))
                         \o PushAll(ov, open, child_type(dep_type, "devDependencies"))
                    ELSE << >>
              IN  /\ queue' = Tail(queue) \o pushed
                  /\ expansions' = expansions \cup
                       {[name |-> pkg_name, type |-> dep_type,
                         visited |-> visited, pushed |-> Range(pushed)]}
  /\ UNCHANGED << manifest, dpc, visited >>
  /\ UNCHANGED nonDepVars

\* pop_front of a name that is already visited: upgrade or leave, continue
DequeueVisited ==
  /\ dpc = "bfs"
  /\ queue # << >>
  /\ LET pkg_name == Head(queue).name
         dep_type == Head(queue).type
     IN  /\ pkg_name \in visited
         /\ package_types' =
              IF pkg_name \in DOMAIN package_types
                 /\ should_upgrade(package_types[pkg_name], dep_type)
              THEN [package_types EXCEPT ![pkg_name] = dep_type]
              ELSE package_types
         /\ redequeues' = redequeues \cup
              {[name |-> pkg_name, existing |-> package_types[pkg_name],
                dequeued |-> dep_type, recorded |-> package_types'[pkg_name]]}
  /\ queue' = Tail(queue)
  /\ UNCHANGED << manifest, dpc, visited, expansions >>
  /\ UNCHANGED nonDepVars

\* pop_front of a name not yet visited: record its type, enqueue its lists
DequeueNew ==
  /\ dpc = "bfs"
  /\ queue # << >>
  /\ LET pkg_name == Head(queue).name
         dep_type == Head(queue).type
         now_visited == visited \cup {pkg_name}
         open == Names \ now_visited
         list(kind) == PackageList(manifest, pkg_name, kind)
     IN  /\ pkg_name \notin visited
         /\ visited' = now_visited
         /\ package_types' =
              [n \in DOMAIN package_types \cup {pkg_name} |->
                 IF n = pkg_name THEN dep_type ELSE package_types[n]]
         /\ \E od \in Orders(list("dependencies")),
               oo \in Orders(list("optionalDependencies")),
               op \in Orders(list("peerDependencies")),
               ov \in Orders(list("devDependencies")) :
              LET pushed ==
                    IF Installed(manifest, pkg_name)
                    THEN PushAll(od, open, child_type(dep_type, "dependencies"))
                         \o PushAll(oo, open, child_type(dep_type, "optionalDependencies"))
                         \o PushAll(op, open, child_type(dep_type, "peerDependencies"))
                         \o PushAll(ov, open, child_type(dep_type, "devDependencies"))
                    ELSE << >>
              IN  /\ queue' = Tail(queue) \o pushed
                  /\ expansions' = expansions \cup
                       {[name |-> pkg_name, type |-> dep_type,
                         visited |-> visited, pushed |-> Range(pushed)]}
  /\ UNCHANGED << manifest, dpc, redequeues >>
  /\ UNCHANGED nonDepVars

\* the queue is empty: build returns the graph
FinishBuild ==
  /\ dpc = "bfs"
  /\ queue = << >>
  /\ dpc' = "built"
  /\ UNCHANGED << manifest, queue, visited, package_types, expansions, redequeues >>
  /\ UNCHANGED nonDepVars

\* get_type with Dev as the fallback
get_type_defaulting_to_dev(types, package_name) ==
  IF package_name \in DOMAIN types THEN types[package_name] ELSE "dev"

\* package_types.get(name).copied().unwrap_or(Unknown)
get_type(types, package_name) ==
  IF package_name \in DOMAIN types THEN types[package_name] ELSE "unknown"

DepsInit ==
  /\ manifest \in {m \in [roots : SubsetsUpTo(RootEntries, MaxRoots),
                         edges : SubsetsUpTo(EdgeEntries, MaxEdges)] :
                    OneOfEachRenaming(m)}
  /\ dpc = "seed"
  /\ queue = << >>
  /\ visited = {}
  /\ package_types = << >>
  /\ expansions = {}
  /\ redequeues = {}

\* Manifests whose lists may hold the package's own name and may form
\* cycles: the root lists two dependencies, and up to MaxCycleEdges entries
\* stand in the dependencies and optionalDependencies of the four packages.
MaxCycleEdges == 3

CyclicRoots == {<< "dependencies", "a" >>, << "dependencies", "b" >>}

CyclicEdgeEntries == Names \X {"dependencies", "optionalDependencies"} \X Names

CyclicManifests ==
  {[roots |-> CyclicRoots, edges |-> es] :
     es \in SubsetsUpTo(CyclicEdgeEntries, MaxCycleEdges)}

DepsInitCyclic ==
  /\ manifest \in CyclicManifests
  /\ dpc = "seed"
  /\ queue = << >>
  /\ visited = {}
  /\ package_types = << >>
  /\ expansions = {}
  /\ redequeues = {}

DepsNext ==
  \/ SeedQueue
  \/ DequeueVisited
  \/ DequeueNew
  \/ FinishBuild

\* the classification is not running
DepsIdle ==
  /\ manifest = [roots |-> {}, edges |-> {}]
  /\ dpc = "idle"
  /\ queue = << >>
  /\ visited = {}
  /\ package_types = << >>
  /\ expansions = {}
  /\ redequeues = {}

\* the pipeline is not running
PipeIdle ==
  /\ content = [p \in Pkgs |-> 0]
  /\ now = 0
  /\ entries = [p \in Pkgs |-> NoEntry]
  /\ cache_enabled = FALSE
  /\ active_analyzers = {}
  /\ ignore_issues = << >>
  /\ severity_override = NoOverride
  /\ fail_fast = FALSE
  /\ exit_level = "unset"
  /\ run = MaxRuns
  /\ changed = TRUE
  /\ pc = "idle"
  /\ scanned = {}
  /\ cached_results = << >>
  /\ work_items = << >>
  /\ analyzed = << >>
  /\ results = << >>
  /\ ignored_ids = {}
  /\ exit_status = "none"
  /\ prev = [valid |-> FALSE]

(***************************************************************************)
(* Registry client (registry.rs).  A response is what one HTTP request to  *)
(* the registry comes back with: a status and a body that parses as        *)
(* PackageMetadata or does not, or no response at all (send error).        *)
(***************************************************************************)
NetNames == {"a", "b"}

Versions == {"1.0.0", "2.0.0", "next"}

\* PackageId
PackageId(name, version) == [name |-> name, version |-> version]

\* Result<T>
Ok(x) == [ok |-> TRUE, value |-> x]
Err(e) == [ok |-> FALSE, error |-> e]

SendError == [sent |-> FALSE]

HttpResponse(status, parses) == [sent |-> TRUE, status |-> status, parses |-> parses]

Responses ==
  {HttpResponse(200, TRUE), HttpResponse(200, FALSE), HttpResponse(404, FALSE),
   HttpResponse(403, FALSE), HttpResponse(429, FALSE), HttpResponse(503, FALSE),
   SendError}

\* StatusCode::is_success
is_success(status) == 200 <= status /\ status <= 299

\* the document the registry holds for a name: which versions it lists, and
\* what the four metadata analyzers read from it
Packument(name) ==
  IF name = "a"
  THEN [name |-> name, versions |-> {"1.0.0", "2.0.0"}, deprecated |-> {"1.0.0"},
        recent |-> {"2.0.0"}, after_dormancy |-> {"2.0.0"}, maintainers |-> 1]
  ELSE [name |-> name, versions |-> {"1.0.0"}, deprecated |-> {},
        recent |-> {}, after_dormancy |-> {}, maintainers |-> 2]

max_retries == 3

\* the delay slept before attempt number attempt (> 0), in milliseconds
backoff_delay_doubling_early(attempt) == 100 * 2^attempt

backoff_delay(attempt) == 100 * 2^(attempt - 1)

\* Registry::get_package from attempt number attempt on; responses[k] is what
\* request number k comes back with, if it is sent
RECURSIVE get_package_from(_, _, _, _, _)
get_package_from(name, responses, attempt, sleeps, last_error) ==
  IF attempt > max_retries
  THEN [result |-> Err(IF last_error.some THEN last_error.value
                       ELSE "Registry request failed after retries"),
        requests |-> attempt, sleeps |-> sleeps]
  ELSE LET slept == IF attempt > 0 THEN Append(sleeps, backoff_delay(attempt))
                    ELSE sleeps
           response == responses[attempt]
           return(r) == [result |-> r, requests |-> attempt + 1, sleeps |-> slept]
       IN  IF response.sent
           THEN IF is_success(response.status)
                THEN IF response.parses THEN return(Ok(Packument(name)))
                     ELSE return(Err("Failed to parse metadata"))
                ELSE IF response.status = 404
                THEN return(Err("Package not found"))
                ELSE IF response.status < 500 /\ response.status # 429
                THEN return(Err("Registry request failed with status"))
                ELSE get_package_from(name, responses, attempt + 1, slept,
                                      Some("Registry request failed with status"))
           ELSE get_package_from(name, responses, attempt + 1, slept,
                                 Some("Registry request failed"))

get_package(name, responses) == get_package_from(name, responses, 0, << >>, None)

\* the record of one get_package call
FetchRecord(name, responses) ==
  LET r == get_package(name, responses)
  IN  [valid |-> TRUE, name |-> name, responses |-> responses,
       requests |-> r.requests, sleeps |-> r.sleeps, result |-> r.result]

NoFetch == [valid |-> FALSE]

\* one call of Registry::get_package against a registry that answers the
\* successive requests in any way
FetchPackage(name, responses) ==
  /\ npc = "idle"
  /\ ~last_fetch.valid
  /\ last_fetch' = FetchRecord(name, responses)
  /\ UNCHANGED << global_cache, disk, scans, offline, npc, packages, metadata, vulnerabilities,
                  names_left, fetched, next_chunk, net_issues, last_lookup, osv_log >>
  /\ UNCHANGED nonNetVars

(***************************************************************************)
(* Metadata lookups (registry.rs, prefetch.rs).  A lookup runs as one      *)
(* step; the registry's answers to its requests are the step's input, and  *)
(* the write of the file on the disk succeeds.                             *)
(***************************************************************************)
\* Registry::cache_key, PackageId::cache_key: format!("{}@{}", name, version)
cache_key(name, version) == << name, "@", version >>

Keys == {cache_key(n, v) : n \in NetNames, v \in Versions}

NothingCached == [k \in Keys |-> None]

NoMetadata == [n \in NetNames |-> None]

\* a lookup that goes from the process map straight to the registry
get_package_cached_skipping_disk(g, d, name, version, responses) ==
  LET key == cache_key(name, version)
      f == FetchRecord(name, responses)
  IN  IF g[key].some
      THEN [result |-> Ok(g[key].value), global |-> g, disk |-> d,
            consulted |-> << "memory" >>, fetch |-> NoFetch]
      ELSE [result |-> f.result,
            global |-> IF f.result.ok THEN [g EXCEPT ![key] = Some(f.result.value)]
                       ELSE g,
            disk |-> d, consulted |-> << "memory", "registry" >>, fetch |-> f]

\* Registry::get_package_cached over the process map g and the disk d
get_package_cached(g, d, name, version, responses) ==
  LET key == cache_key(name, version)
  IN  IF g[key].some
      THEN [result |-> Ok(g[key].value), global |-> g, disk |-> d,
            consulted |-> << "memory" >>, fetch |-> NoFetch]
      ELSE IF d[key] = "valid"
      THEN [result |-> Ok(Packument(name)),
            global |-> [g EXCEPT ![key] = Some(Packument(name))], disk |-> d,
            consulted |-> << "memory", "disk" >>, fetch |-> NoFetch]
      ELSE LET f == FetchRecord(name, responses)
           IN  IF f.result.ok
               THEN [result |-> f.result,
                     global |-> [g EXCEPT ![key] = Some(f.result.value)],
                     disk |-> [d EXCEPT ![key] = "valid"],
                     consulted |-> << "memory", "disk", "registry" >>, fetch |-> f]
               ELSE [result |-> f.result, global |-> g, disk |-> d,
                     consulted |-> << "memory", "disk", "registry" >>, fetch |-> f]

\* PrefetchedData::get_metadata over the scan's map m
get_metadata(m, g, d, name, version, responses) ==
  IF m[name].some
  THEN [value |-> Some(m[name].value), metadata |-> m, global |-> g, disk |-> d,
        consulted |-> << "prefetched" >>, fetch |-> NoFetch]
  ELSE LET c == get_package_cached(g, d, name, version, responses)
       IN  [value |-> IF c.result.ok THEN Some(c.result.value) ELSE None,
            metadata |-> IF c.result.ok
                         THEN [m EXCEPT ![name] = Some(c.result.value)] ELSE m,
            global |-> c.global, disk |-> c.disk,
            consulted |-> << "prefetched" >> \o c.consulted, fetch |-> c.fetch]

\* PrefetchedData::get_vulnerabilities
get_vulnerabilities(vm, name, version) == vm[cache_key(name, version)]

\* some map of the process holds the metadata of the name
StoredInMemory(m, g, name) ==
  m[name].some \/ \E v \in Versions : g[cache_key(name, v)].some

\* the record of one lookup, with what the caches held when it began
LookupRecord(via, name, version, out) ==
  [valid |-> TRUE, via |-> via, name |-> name, version |-> version,
   consulted |-> out.consulted,
   requests |-> IF out.fetch.valid THEN out.fetch.requests ELSE 0,
   fetch |-> out.fetch,
   prefetched_before |-> via = "get_metadata" /\ metadata[name].some,
   memory_before |-> global_cache[cache_key(name, version)].some,
   disk_before |-> disk[cache_key(name, version)],
   stored_before |-> StoredInMemory(metadata, global_cache, name),
   found |-> out.found]

NoLookup == [valid |-> FALSE]

\* how a registry answers the requests of one lookup: every request alike
ServerBehaviours ==
  { [k \in 0..max_retries |-> r] :
      r \in {HttpResponse(200, TRUE), HttpResponse(404, FALSE),
             HttpResponse(503, FALSE)} }

(***************************************************************************)
(* Prefetch (prefetch.rs, Analyzer::prefetch_data).                        *)
(***************************************************************************)
\* a work item of the scan
WorkItem(name, version, is_local) ==
  [name |-> name, version |-> version, is_local |-> is_local]

\* semver::Version::parse, as the rank of the parsed version
SemverParse(version) ==
  IF version = "1.0.0" THEN Some(1)
  ELSE IF version = "2.0.0" THEN Some(2)
  ELSE None

\* the versions of a name in the order of the work items
VersionsOf(items, name) ==
  LET idx == {i \in 1..Len(items) : items[i].name = name}
      RECURSIVE collect(_, _)
      collect(i, acc) ==
        IF i > Len(items) THEN acc
        ELSE collect(i + 1, IF i \in idx THEN Append(acc, items[i].version) ELSE acc)
  IN  collect(1, << >>)

\* Prefetcher::prefetch: the highest semver version of a name, else its first
highest(versions) ==
  LET parsed == {v \in Range(versions) : SemverParse(v).some}
  IN  IF parsed # {}
      THEN CHOOSE v \in parsed :
             \A w \in parsed : SemverParse(w).value <= SemverParse(v).value
      ELSE versions[1]

NamesOf(items) == {items[i].name : i \in 1..Len(items)}

\* the vulnerability service: its answer to the query for one package
OsvResult(name, version) ==
  IF name = "a" /\ version = "1.0.0" THEN [vulns |-> Some(<< "GHSA-1", "CVE-2" >>)]
  ELSE IF name = "b" /\ version = "1.0.0" THEN [vulns |-> Some(<< >>)]
  ELSE IF name = "b" THEN [vulns |-> Some(<< "GHSA-3" >>)]
  ELSE [vulns |-> None]

VulnerabilityInfo(id) == [id |-> id]

\* the list prefetch_cves builds from one entry of a response
BuildVulns(result) ==
  IF result.vulns.some
  THEN [j \in 1..Len(result.vulns.value) |-> VulnerabilityInfo(result.vulns.value[j])]
  ELSE << >>

BATCH_SIZE == 500

Min(a, b) == IF a <= b THEN a ELSE b

\* slice::chunks(BATCH_SIZE): the number of chunks and chunk number c (from 0)
NumChunks(items) == (Len(items) + BATCH_SIZE - 1) \div BATCH_SIZE

ChunkFirst(c) == c * BATCH_SIZE + 1

ChunkOfOneTooMany(items, c) ==
  SubSeq(items, ChunkFirst(c), Min(ChunkFirst(c) + BATCH_SIZE, Len(items)))

Chunk(items, c) ==
  SubSeq(items, ChunkFirst(c), Min(ChunkFirst(c) + BATCH_SIZE - 1, Len(items)))

\* what the service sends back for the queries of a chunk
OsvOutcomes == {"send_error", "bad_json", "ok", "short"}

OsvResults(chunk, outcome) ==
  LET full == [j \in 1..Len(chunk) |-> OsvResult(chunk[j].name, chunk[j].version)]
  IN  IF outcome = "short" THEN SubSeq(full, 1, Len(full) - 1) ELSE full

\* the zip of a chunk with the results of its response, inserted in order:
\* a key holds the list built from the last pair that names it
InsertResults(vm, chunk, response) ==
  [k \in Keys |->
     LET pairs == {j \in 1..Min(Len(chunk), Len(response)) :
                     cache_key(chunk[j].name, chunk[j].version) = k}
     IN  IF pairs = {} THEN vm[k]
         ELSE Some(BuildVulns(response[CHOOSE j \in pairs : \A h \in pairs : h <= j]))]

\* prefetch_metadata: the lookup of one name, in any order of the names
PrefetchMetadata(name, responses) ==
  /\ npc = "prefetch"
  /\ name \in names_left
  /\ LET version == highest(VersionsOf(packages, name))
         c == get_package_cached(global_cache, disk, name, version, responses)
     IN  /\ global_cache' = c.global
         /\ disk' = c.disk
         /\ fetched' = IF c.result.ok
                       THEN fetched \cup {<< name, c.result.value >>} ELSE fetched
         /\ last_fetch' = IF c.fetch.valid THEN c.fetch ELSE last_fetch
         /\ last_lookup' = LookupRecord("get_package_cached", name, version,
                                        [consulted |-> c.consulted, fetch |-> c.fetch,
                                         found |-> c.result.ok])
  /\ names_left' = names_left \ {name}
  /\ UNCHANGED << scans, offline, npc, packages, metadata, vulnerabilities, next_chunk,
                  net_issues, osv_log >>
  /\ UNCHANGED nonNetVars

\* prefetch_cves: one chunk, one request
PrefetchCves(outcome) ==
  /\ npc = "prefetch"
  /\ next_chunk < NumChunks(packages)
  /\ LET chunk == Chunk(packages, next_chunk)
         response == OsvResults(chunk, outcome)
         parsed == outcome \in {"ok", "short"}
     IN  /\ vulnerabilities' = IF parsed
                               THEN InsertResults(vulnerabilities, chunk, response)
                               ELSE vulnerabilities
         /\ osv_log' = Append(osv_log,
                              [first |-> ChunkFirst(next_chunk), queries |-> Len(chunk),
                               outcome |-> outcome,
                               results |-> IF parsed THEN response ELSE << >>])
  /\ next_chunk' = next_chunk + 1
  /\ UNCHANGED << global_cache, disk, scans, offline, npc, packages, metadata,
                  names_left, fetched, net_issues, last_fetch, last_lookup >>
  /\ UNCHANGED nonNetVars

\* the end of prefetch: both halves are through, prefetch_metadata stores
\* what it collected and the analysis of the work items begins
FinishPrefetch ==
  /\ npc = "prefetch"
  /\ names_left = {}
  /\ next_chunk = NumChunks(packages)
  /\ metadata' = [n \in NetNames |->
                    IF \E r \in fetched : r[1] = n
                    THEN Some((CHOOSE r \in fetched : r[1] = n)[2])
                    ELSE metadata[n]]
  /\ fetched' = {}
  /\ npc' = "analyze"
  /\ UNCHANGED << global_cache, disk, scans, offline, packages, vulnerabilities,
                  names_left, next_chunk, net_issues, last_fetch, last_lookup, osv_log >>
  /\ UNCHANGED nonNetVars

(***************************************************************************)
(* Package analyzers (analyzers/mod.rs, analyzers/*.rs).                   *)
(***************************************************************************)
NetworkAnalyzers == << "cooldown", "cve", "deprecated", "dormant", "reputation" >>

\* PackageAnalyzer::requires_network
requires_network(analyzer) == analyzer \in Range(NetworkAnalyzers)

\* Analyzer::new: the package analyzers registered, in order
package_analyzers(off) ==
  << "native", "scripts", "typosquat" >> \o (IF ~off THEN NetworkAnalyzers ELSE << >>)

\* analyze_package_with_benchmark: the analyzers that run on a work item
selected_analyzers_ignoring_local(off, wi) == package_analyzers(off)

selected_analyzers(off, wi) ==
  SelectSeq(package_analyzers(off),
            LAMBDA a : ~(wi.is_local /\ requires_network(a)))

\* Analyzer::prefetch_data: whether the prefetcher is invoked
prefetcher_invoked(off) == ~off

PackageIssue(analyzer, wi) ==
  [analyzer |-> analyzer, package |-> cache_key(wi.name, wi.version)]

\* what the analyzers that need no network find in a package
LocalAnalyzerIssues(analyzer, wi) ==
  IF analyzer = "scripts" /\ wi.name = "a" THEN {PackageIssue(analyzer, wi)}
  ELSE IF analyzer = "typosquat" /\ wi.name = "b" THEN {PackageIssue(analyzer, wi)}
  ELSE {}

\* the deprecated analyzer reporting whatever the lookup returned
MetadataAnalyzerIssuesWithoutData(analyzer, wi, meta) ==
  IF analyzer = "deprecated" THEN {PackageIssue(analyzer, wi)} ELSE {}

\* cooldown, deprecated, dormant, reputation: the issues found in the metadata
\* (None: no issues)
MetadataAnalyzerIssues(analyzer, wi, meta) ==
  IF ~meta.some THEN {}
  ELSE LET m == meta.value
           flagged ==
             CASE analyzer = "cooldown" -> wi.version \in m.recent
               [] analyzer = "deprecated" ->
                    wi.version \in m.versions /\ wi.version \in m.deprecated
               [] analyzer = "dormant" -> wi.version \in m.after_dormancy
               [] analyzer = "reputation" ->
                    wi.version \in m.versions /\ m.maintainers = 1
               [] OTHER -> FALSE
       IN  IF flagged THEN {PackageIssue(analyzer, wi)} ELSE {}

\* the cve analyzer reporting a package it has no list for
CveAnalyzerIssuesAssumingVulnerable(wi, vulns) ==
  IF ~vulns.some
  THEN {[analyzer |-> "cve", package |-> cache_key(wi.name, wi.version),
         id |-> "unknown"]}
  ELSE {[analyzer |-> "cve", package |-> cache_key(wi.name, wi.version),
         id |-> vulns.value[j].id] : j \in 1..Len(vulns.value)}

\* cve: one issue per vulnerability of the stored list (None: no issues)
CveAnalyzerIssues(wi, vulns) ==
  IF ~vulns.some THEN {}
  ELSE {[analyzer |-> "cve", package |-> cache_key(wi.name, wi.version),
         id |-> vulns.value[j].id] : j \in 1..Len(vulns.value)}

\* the next analyzer of work item i, if any
NextAnalyzer(i) ==
  LET sel == selected_analyzers(offline, packages[i])
  IN  IF Len(net_issues[i]) < Len(sel) THEN Some(sel[Len(net_issues[i]) + 1]) ELSE None

\* work item i has begun and not finished
InProgress(i) == net_issues[i] # << >> /\ NextAnalyzer(i).some

\* join_all over the analyzers of one work item: the next analyzer of the
\* item runs to its end, or panics; a panic is not caught on this path
\* (analyze_single_package awaits analyze_package_with_benchmark directly).
\* The model takes the work items in any order and runs the analyzers of one
\* before those of the next: work items share only the maps of the lookups,
\* and a lookup reads and writes them in one step.
RunPackageAnalyzer(i, responses, panics) ==
  /\ npc = "analyze"
  /\ i \in 1..Len(packages)
  /\ NextAnalyzer(i).some
  /\ \A j \in 1..Len(packages) : InProgress(j) => j = i
  /\ LET analyzer == NextAnalyzer(i).value
         wi == packages[i]
         prefetched == IF offline THEN None ELSE Some("PrefetchedData")
     IN  IF panics
         THEN /\ npc' = "panicked"
              /\ UNCHANGED << global_cache, disk, metadata, net_issues, last_fetch,
                              last_lookup >>
         ELSE /\ npc' = npc
              /\ IF ~requires_network(analyzer)
                 THEN /\ net_issues' =
                           [net_issues EXCEPT ![i] =
                              Append(@, [analyzer |-> analyzer, data |-> "unused",
                                         lookup |-> NoLookup,
                                         issues |-> LocalAnalyzerIssues(analyzer, wi)])]
                      /\ UNCHANGED << global_cache, disk, metadata, last_fetch,
                                      last_lookup >>
                 ELSE IF ~prefetched.some
                 THEN /\ net_issues' =
                           [net_issues EXCEPT ![i] =
                              Append(@, [analyzer |-> analyzer, data |-> "missing",
                                         lookup |-> NoLookup, issues |-> {}])]
                      /\ UNCHANGED << global_cache, disk, metadata, last_fetch,
                                      last_lookup >>
                 ELSE IF analyzer = "cve"
                 THEN LET vulns == get_vulnerabilities(vulnerabilities, wi.name, wi.version)
                      IN  /\ net_issues' =
                               [net_issues EXCEPT ![i] =
                                  Append(@, [analyzer |-> analyzer,
                                             data |-> IF vulns.some THEN "found"
                                                      ELSE "missing",
                                             lookup |-> NoLookup,
                                             issues |-> CveAnalyzerIssues(wi, vulns)])]
                          /\ UNCHANGED << global_cache, disk, metadata, last_fetch,
                                          last_lookup >>
                 ELSE LET out == get_metadata(metadata, global_cache, disk, wi.name,
                                              wi.version, responses)
                          record == LookupRecord("get_metadata", wi.name, wi.version,
                                                 [consulted |-> out.consulted,
                                                  fetch |-> out.fetch,
                                                  found |-> out.value.some])
                      IN  /\ net_issues' =
                               [net_issues EXCEPT ![i] =
                                  Append(@, [analyzer |-> analyzer,
                                             data |-> IF out.value.some THEN "found"
                                                      ELSE "missing",
                                             lookup |-> record,
                                             issues |-> MetadataAnalyzerIssues(
                                                          analyzer, wi, out.value)])]
                          /\ metadata' = out.metadata
                          /\ global_cache' = out.global
                          /\ disk' = out.disk
                          /\ last_fetch' = IF out.fetch.valid THEN out.fetch ELSE last_fetch
                          /\ last_lookup' = record
  /\ UNCHANGED << scans, offline, packages, vulnerabilities, names_left, fetched,
                  next_chunk, osv_log >>
  /\ UNCHANGED nonNetVars

(***************************************************************************)
(* The scans of one process.                                               *)
(***************************************************************************)
\* the work items of a scan
WorkLists ==
  { << WorkItem("a", "1.0.0", FALSE) >>,
    << WorkItem("a", "2.0.0", FALSE), WorkItem("a", "1.0.0", FALSE) >>,
    << WorkItem("a", "next", FALSE), WorkItem("b", "1.0.0", TRUE) >>,
    << WorkItem("b", "1.0.0", FALSE), WorkItem("a", "2.0.0", TRUE) >> }

\* the work items of a later scan of the same process
RescanLists ==
  { << WorkItem("a", "1.0.0", FALSE) >>,
    << WorkItem("a", "2.0.0", FALSE), WorkItem("a", "1.0.0", FALSE) >> }

\* the metadata files an earlier process left on the disk
DiskStates ==
  { [k \in Keys |-> "absent"],
    [k \in Keys |-> IF k = cache_key("a", "1.0.0") THEN "valid" ELSE "absent"],
    [k \in Keys |-> IF k = cache_key("a", "2.0.0") THEN "corrupt" ELSE "absent"] }

NoVulnerabilities == [k \in Keys |-> None]

\* Analyzer::prefetch_data
StartScan ==
  /\ npc = "start"
  /\ IF prefetcher_invoked(offline)
     THEN /\ npc' = "prefetch"
          /\ names_left' = NamesOf(packages)
     ELSE /\ npc' = "analyze"
          /\ names_left' = {}
  /\ UNCHANGED << global_cache, disk, scans, offline, packages, metadata,
                  vulnerabilities, fetched, next_chunk, net_issues, last_fetch,
                  last_lookup, osv_log >>
  /\ UNCHANGED nonNetVars

\* every work item has been analyzed
FinishScan ==
  /\ npc = "analyze"
  /\ \A i \in 1..Len(packages) : ~NextAnalyzer(i).some
  /\ npc' = "done"
  /\ UNCHANGED << global_cache, disk, scans, offline, packages, metadata,
                  vulnerabilities, names_left, fetched, next_chunk, net_issues,
                  last_fetch, last_lookup, osv_log >>
  /\ UNCHANGED nonNetVars

\* run is called again in the same process: the process map and the disk
\* stay, the scan gets new work items and a new PrefetchedData
NextScan(items) ==
  /\ npc = "done"
  /\ scans = 1
  /\ scans' = scans + 1
  /\ npc' = "start"
  /\ packages' = items
  /\ metadata' = NoMetadata
  /\ vulnerabilities' = NoVulnerabilities
  /\ names_left' = {}
  /\ fetched' = {}
  /\ next_chunk' = 0
  /\ net_issues' = [i \in 1..Len(items) |-> << >>]
  /\ osv_log' = << >>
  /\ last_fetch' = NoFetch
  /\ last_lookup' = NoLookup
  /\ UNCHANGED << global_cache, disk, offline >>
  /\ UNCHANGED nonNetVars

NetInit ==
  /\ global_cache = NothingCached
  /\ disk \in DiskStates
  /\ scans = 1
  /\ offline \in BOOLEAN
  /\ npc = "start"
  /\ packages \in WorkLists
  /\ metadata = NoMetadata
  /\ vulnerabilities = NoVulnerabilities
  /\ names_left = {}
  /\ fetched = {}
  /\ next_chunk = 0
  /\ net_issues = [i \in 1..Len(packages) |-> << >>]
  /\ last_fetch = NoFetch
  /\ last_lookup = NoLookup
  /\ osv_log = << >>

NetNext ==
  \/ StartScan
  \/ \E n \in NetNames, r \in ServerBehaviours : PrefetchMetadata(n, r)
  \/ \E o \in OsvOutcomes : PrefetchCves(o)
  \/ FinishPrefetch
  \/ \E i \in 1..2, r \in ServerBehaviours, p \in BOOLEAN :
       RunPackageAnalyzer(i, r, p)
  \/ FinishScan
  \/ \E items \in RescanLists : NextScan(items)

\* the network side is not running
NetIdle ==
  /\ global_cache = NothingCached
  /\ disk = [k \in Keys |-> "absent"]
  /\ scans = 0
  /\ offline = FALSE
  /\ npc = "idle"
  /\ packages = << >>
  /\ metadata = NoMetadata
  /\ vulnerabilities = NoVulnerabilities
  /\ names_left = {}
  /\ fetched = {}
  /\ next_chunk = 0
  /\ net_issues = << >>
  /\ last_fetch = NoFetch
  /\ last_lookup = NoLookup
  /\ osv_log = << >>

\* the registry client alone: one lookup after another
RegistryNext ==
  \E n \in NetNames, r \in [0..max_retries -> Responses] : FetchPackage(n, r)

\* prefetch_cves alone, over long lists of work items
LongLists ==
  LET pattern == << WorkItem("a", "1.0.0", FALSE), WorkItem("b", "1.0.0", FALSE),
                    WorkItem("a", "2.0.0", FALSE), WorkItem("b", "2.0.0", FALSE),
                    WorkItem("a", "next", FALSE) >>
  IN  { [i \in 1..n |-> pattern[((i - 1) % Len(pattern)) + 1]] :
          n \in {BATCH_SIZE - 1, BATCH_SIZE, BATCH_SIZE + 1,
                 BATCH_SIZE + BATCH_SIZE, BATCH_SIZE + BATCH_SIZE + 1} }

OsvInit ==
  /\ global_cache = NothingCached
  /\ disk = [k \in Keys |-> "absent"]
  /\ scans = 1
  /\ offline = FALSE
  /\ npc = "prefetch"
  /\ packages \in LongLists
  /\ metadata = NoMetadata
  /\ vulnerabilities = NoVulnerabilities
  /\ names_left = {}
  /\ fetched = {}
  /\ next_chunk = 0
  /\ net_issues = [i \in 1..Len(packages) |-> << >>]
  /\ last_fetch = NoFetch
  /\ last_lookup = NoLookup
  /\ osv_log = << >>

OsvNext ==
  \/ \E o \in OsvOutcomes : PrefetchCves(o)
  \/ FinishPrefetch

(***************************************************************************)
(* File analysis (analyzers/mod.rs analyze_file_with_package, ast.rs).     *)
(* A source file is its size, the nodes of its syntax tree in the order of *)
(* the traversal of extract_all_events (parents before children, children  *)
(* left to right: the order of the nodes' start in the source), and        *)
(* whether parsing it takes longer than a timeout that is set.             *)
(***************************************************************************)
EventKinds == << "call", "member_access", "assignment", "destructure", "string_literal" >>

\* NodeInterest, as the set of the kinds whose flag is set
NodeInterests == SUBSET Range(EventKinds)

\* extract_all_events: the kinds of events the node at one position yields
NodeEvents(kind) ==
  CASE kind \in {"call_expression", "new_expression"} -> << "call" >>
    [] kind \in {"member_expression", "subscript_expression"} -> << "member_access" >>
    [] kind = "assignment_expression" -> << "assignment" >>
    [] kind = "variable_declarator" -> << "assignment" >>
    [] kind = "variable_declarator_pattern" -> << "assignment", "destructure" >>
    [] kind \in {"string", "template_string"} -> << "string_literal" >>
    [] OTHER -> << >>

\* the events of one kind, in the order of the traversal
RECURSIVE EventsOfKind(_, _, _)
EventsOfKind(nodes, kind, pos) ==
  IF pos > Len(nodes) THEN << >>
  ELSE (IF kind \in Range(NodeEvents(nodes[pos]))
        THEN << [kind |-> kind, pos |-> pos] >> ELSE << >>)
       \o EventsOfKind(nodes, kind, pos + 1)

\* ParsedAst: one vector per kind
extract_all_events(nodes) == [k \in Range(EventKinds) |-> EventsOfKind(nodes, k, 1)]

\* ParsedAst::parse_with_timeout; timeout_ms 0 sets no timeout
parse_with_timeout(file, timeout_ms) ==
  IF timeout_ms > 0 /\ file.slow THEN None ELSE Some(extract_all_events(file.nodes))

\* ParsedAst::parse
parse(file) == parse_with_timeout(file, 0)

\* walk_parsed_ast_filtered: what the visitor receives, in order
RECURSIVE walk_from(_, _, _)
walk_from(parsed, interest, k) ==
  IF k > Len(EventKinds) THEN << >>
  ELSE (IF EventKinds[k] \in interest THEN parsed[EventKinds[k]] ELSE << >>)
       \o walk_from(parsed, interest, k + 1)

walk_parsed_ast_unfiltered(parsed, interest) == walk_from(parsed, Range(EventKinds), 1)

walk_parsed_ast_filtered(parsed, interest) == walk_from(parsed, interest, 1)

\* walk_ast_filtered: the pre-parsed AST if there is one, else a parse of the
\* source; the events received and the parses made
walk_ast_filtered(parsed_opt, file, interest) ==
  IF parsed_opt.some
  THEN [delivered |-> walk_parsed_ast_filtered(parsed_opt.value, interest), parses |-> 0]
  ELSE LET again == parse(file)
       IN  [delivered |-> IF again.some
                          THEN walk_parsed_ast_filtered(again.value, interest)
                          ELSE << >>,
            parses |-> 1]

\* the file analyzers of the model, in the order of Analyzer::new
file_analyzers == << "base64", "env", "eval", "fs", "ip", "minified", "pollution" >>

\* FileAnalyzer::uses_ast
uses_ast(analyzer) == analyzer \in {"env", "eval", "fs", "ip", "pollution"}

\* the NodeInterest an analyzer walks with
interest_of(analyzer) ==
  CASE analyzer = "env" -> {"member_access", "destructure"}
    [] analyzer = "eval" -> {"call"}
    [] analyzer = "fs" -> {"call", "string_literal"}
    [] analyzer = "pollution" -> {"call", "assignment"}
    [] OTHER -> {}

\* analyze_file_with_package: the analyzers left by the filter
runs_on_any_size(analyzer, file_size, max_size) == TRUE

runs_on(analyzer, file_size, max_size) == ~(uses_ast(analyzer) /\ file_size > max_size)

\* FileAnalyzer::analyze: what the analyzer looks at, the issues it reports
\* (one per event it looks at; one for the text of the file if it reads the
\* text), and the parses it makes
analyze(analyzer, file, parsed_opt) ==
  IF ~uses_ast(analyzer)
  THEN [delivered |-> << >>, parses |-> 0, issues |-> {[analyzer |-> analyzer, pos |-> 0]}]
  ELSE IF analyzer = "ip"
  THEN LET seen == IF parsed_opt.some THEN parsed_opt.value["string_literal"] ELSE << >>
       IN  [delivered |-> seen, parses |-> 0,
            issues |-> {[analyzer |-> analyzer, pos |-> e.pos] : e \in Range(seen)}]
  ELSE LET w == walk_ast_filtered(parsed_opt, file, interest_of(analyzer))
       IN  [delivered |-> w.delivered, parses |-> w.parses,
            issues |-> {[analyzer |-> analyzer, pos |-> e.pos] : e \in Range(w.delivered)}]

\* the syntax trees of the model
SourceTrees ==
  { << >>,
    << "call_expression", "member_expression", "string" >>,
    << "string", "variable_declarator_pattern", "member_expression", "call_expression",
       "assignment_expression", "new_expression", "template_string" >>,
    << "variable_declarator", "subscript_expression", "identifier", "call_expression" >> }

SourceFiles ==
  {[size |-> s, nodes |-> t, slow |-> w] : s \in 1..3, t \in SourceTrees, w \in BOOLEAN}

\* config.max_file_size and config.ast_timeout_ms
FileConfigs ==
  {[max_file_size |-> 2, ast_timeout_ms |-> t] : t \in {0, 50}}

NoFile == [size |-> 0, nodes |-> << >>, slow |-> FALSE]

\* analyze_file_with_package up to the FileContext: needs_ast and the parse
ParseFile ==
  /\ fpc = "parse"
  /\ LET needs_ast == /\ source_file.size <= file_config.max_file_size
                      /\ \E k \in 1..Len(file_analyzers) : uses_ast(file_analyzers[k])
     IN  IF needs_ast
         THEN /\ parsed_ast' = parse_with_timeout(source_file, file_config.ast_timeout_ms)
              /\ parse_count' = parse_count + 1
         ELSE /\ parsed_ast' = None
              /\ parse_count' = parse_count
  /\ fpc' = "analyze"
  /\ UNCHANGED << source_file, file_config, next_analyzer, file_runs >>
  /\ UNCHANGED nonFileVars

\* the flat_map over the file analyzers: the next analyzer is filtered out,
\* or runs inside catch_unwind and returns its issues, or panics there
RunFileAnalyzer(panics) ==
  /\ fpc = "analyze"
  /\ next_analyzer <= Len(file_analyzers)
  /\ LET analyzer == file_analyzers[next_analyzer]
         out == analyze(analyzer, source_file, parsed_ast)
     IN  IF ~runs_on(analyzer, source_file.size, file_config.max_file_size)
         THEN /\ ~panics
              /\ UNCHANGED << file_runs, parse_count >>
         ELSE IF panics
         THEN /\ file_runs' = Append(file_runs,
                                     [analyzer |-> analyzer, panicked |-> TRUE,
                                      delivered |-> << >>, issues |-> {}])
              /\ UNCHANGED parse_count
         ELSE /\ file_runs' = Append(file_runs,
                                     [analyzer |-> analyzer, panicked |-> FALSE,
                                      delivered |-> out.delivered, issues |-> out.issues])
              /\ parse_count' = parse_count + out.parses
  /\ next_analyzer' = next_analyzer + 1
  /\ UNCHANGED << source_file, file_config, fpc, parsed_ast >>
  /\ UNCHANGED nonFileVars

\* collect
FinishFile ==
  /\ fpc = "analyze"
  /\ next_analyzer > Len(file_analyzers)
  /\ fpc' = "done"
  /\ UNCHANGED << source_file, file_config, parsed_ast, parse_count, next_analyzer, file_runs >>
  /\ UNCHANGED nonFileVars

FileInit ==
  /\ source_file \in SourceFiles
  /\ file_config \in FileConfigs
  /\ fpc = "parse"
  /\ parsed_ast = None
  /\ parse_count = 0
  /\ next_analyzer = 1
  /\ file_runs = << >>

FileNext ==
  \/ ParseFile
  \/ \E p \in BOOLEAN : RunFileAnalyzer(p)
  \/ FinishFile

\* no file is being analyzed
FileIdle ==
  /\ source_file = NoFile
  /\ file_config = [max_file_size |-> 0, ast_timeout_ms |-> 0]
  /\ fpc = "idle"
  /\ parsed_ast = None
  /\ parse_count = 0
  /\ next_analyzer = 0
  /\ file_runs = << >>

(***************************************************************************)
(* VariableMap construction (ast.rs build_variable_map_internal).          *)
(* A string is a sequence of pieces of text; the text "${a}" is one piece, *)
(* whether it stands in a template literal or in a string.                 *)
(***************************************************************************)
MaxAssignments == 3

VarNames == {"a", "b"}

\* the text that INTERPOLATION_RE captures for a name
Placeholder(name) == IF name = "a" THEN "${a}" ELSE "${b}"

\* the name captured in a piece of text, if INTERPOLATION_RE matches it
Captured(piece) ==
  IF \E n \in VarNames : piece = Placeholder(n)
  THEN Some(CHOOSE n \in VarNames : piece = Placeholder(n))
  ELSE None

\* AssignValue
StringLiteral(s) == [kind |-> "StringLiteral", text |-> s]
TemplateLiteral(s) == [kind |-> "TemplateLiteral", text |-> s]
Number == [kind |-> "Number"]
Identifier(name) == [kind |-> "Identifier", name |-> name]
BinaryExpr(l, op, r) == [kind |-> "BinaryExpr", left |-> l, op |-> op, right |-> r]
ObjectLiteral(props) == [kind |-> "ObjectLiteral", props |-> props]

\* AssignTarget
Variable(name, value) == [target |-> "Variable", name |-> name, value |-> value]

\* str::replace: every occurrence of one piece replaced by a string
RECURSIVE Replace(_, _, _)
Replace(s, piece, value) ==
  IF s = << >> THEN << >>
  ELSE (IF Head(s) = piece THEN value ELSE << Head(s) >>) \o Replace(Tail(s), piece, value)

\* resolve_template_interpolations: the captures of the template, one after
\* the other, each replaced in the result so far
RECURSIVE interpolate_from(_, _, _, _)
interpolate_from(template, k, result, current_map) ==
  IF k > Len(template) THEN result
  ELSE LET cap == Captured(template[k])
       IN  IF cap.some /\ current_map[cap.value].some
           THEN interpolate_from(template, k + 1,
                                 Replace(result, template[k], current_map[cap.value].value),
                                 current_map)
           ELSE interpolate_from(template, k + 1, result, current_map)

resolve_template_interpolations(template, current_map) ==
  interpolate_from(template, 1, template, current_map)

\* current_map.get(other_var).cloned()
lookup_or_name(current_map, name) ==
  IF current_map[name].some THEN current_map[name] ELSE Some(<< name >>)

lookup(current_map, name) == current_map[name]

\* resolve_assign_value
RECURSIVE resolve_assign_value(_, _)
resolve_assign_value(value, current_map) ==
  CASE value.kind = "StringLiteral" -> Some(value.text)
    [] value.kind = "TemplateLiteral" ->
         Some(resolve_template_interpolations(value.text, current_map))
    [] value.kind = "Identifier" -> lookup(current_map, value.name)
    [] value.kind = "BinaryExpr" /\ value.op = "+" ->
         LET left_val == resolve_assign_value(value.left, current_map)
         IN  IF ~left_val.some THEN None
             ELSE LET right_val == resolve_assign_value(value.right, current_map)
                  IN  IF ~right_val.some THEN None
                      ELSE Some(left_val.value \o right_val.value)
    [] OTHER -> None

\* var_map.insert(name, resolved) under 'if let Some(resolved)'
insert_if_absent(map, name, resolved) ==
  IF resolved.some /\ ~map[name].some THEN [map EXCEPT ![name] = resolved] ELSE map

insert_resolved(map, name, resolved) ==
  IF resolved.some THEN [map EXCEPT ![name] = resolved] ELSE map

\* the (key, value) pairs of an object literal that resolve, in order
RECURSIVE resolved_props(_, _)
resolved_props(props, current_map) ==
  IF props = << >> THEN << >>
  ELSE LET r == resolve_assign_value(Head(props)[2], current_map)
       IN  (IF r.some THEN << << Head(props)[1], r.value >> >> ELSE << >>)
           \o resolved_props(Tail(props), current_map)

\* the values an assignment of the model can have; the object literal is
\* also the value that does not resolve to a string
AssignValues ==
  { StringLiteral(<< "p" >>),
    TemplateLiteral(<< "${a}", "${b}" >>),
    Identifier("a"),
    Identifier("b"),
    BinaryExpr(Identifier("b"), "+", StringLiteral(<< "q" >>)),
    ObjectLiteral(<< << "k", Identifier("a") >>, << "j", Number >> >>) }

\* the assignments to a simple variable; the other targets change no map
AssignInfos == {Variable(n, Some(v)) : n \in VarNames, v \in AssignValues}

RECURSIVE ListsOfLength(_, _)
ListsOfLength(S, n) ==
  IF n = 0 THEN {<< >>}
  ELSE {Append(l, x) : l \in ListsOfLength(S, n - 1), x \in S}

AssignmentLists == UNION {ListsOfLength(AssignInfos, n) : n \in 0..MaxAssignments}

EmptyVarMap == [n \in VarNames |-> None]

\* one turn of the loop over self.assignments
BuildVariableMapStep ==
  /\ vpc = "build"
  /\ next_assign <= Len(assignments)
  /\ LET assign == assignments[next_assign]
     IN  IF assign.target = "Variable" /\ assign.value.some
         THEN LET value == assign.value.value
                  resolved == resolve_assign_value(value, var_map)
                  after == insert_resolved(var_map, assign.name, resolved)
                  props == IF value.kind = "ObjectLiteral"
                           THEN resolved_props(value.props, after)
                           ELSE << >>
              IN  /\ var_map' = after
                  /\ obj_map' = IF props # << >>
                                THEN [obj_map EXCEPT ![assign.name] = Some(props)]
                                ELSE obj_map
                  /\ resolutions' = Append(resolutions, resolved)
         ELSE /\ UNCHANGED << var_map, obj_map >>
              /\ resolutions' = Append(resolutions, None)
  /\ next_assign' = next_assign + 1
  /\ UNCHANGED << assignments, vpc >>
  /\ UNCHANGED nonVarMapVars

\* VariableMap { var_map, obj_map }
FinishVariableMap ==
  /\ vpc = "build"
  /\ next_assign > Len(assignments)
  /\ vpc' = "done"
  /\ UNCHANGED << assignments, var_map, obj_map, next_assign, resolutions >>
  /\ UNCHANGED nonVarMapVars

VarMapInit ==
  /\ assignments \in AssignmentLists
  /\ var_map = EmptyVarMap
  /\ obj_map = EmptyVarMap
  /\ next_assign = 1
  /\ resolutions = << >>
  /\ vpc = "build"

VarMapNext == BuildVariableMapStep \/ FinishVariableMap

\* no variable map is being built
VarMapIdle ==
  /\ assignments = << >>
  /\ var_map = EmptyVarMap
  /\ obj_map = EmptyVarMap
  /\ next_assign = 0
  /\ resolutions = << >>
  /\ vpc = "idle"

(***************************************************************************)
(* Trust score of one issue list (TrustScore::calculate).                  *)
(***************************************************************************)
MaxPerSeverity == 4

Severities == << "critical", "high", "medium", "low" >>

\* count issues of one severity
RECURSIVE IssuesOf(_, _)
IssuesOf(sev, count) ==
  IF count = 0 THEN << >>
  ELSE Append(IssuesOf(sev, count - 1), MkIssue(<< sev, count >>, "test", sev))

\* issue lists with given counts per severity, the severities in the order
\* given or in the opposite order
IssueList(counts, reversed) ==
  LET block(k) == IssuesOf(Severities[k], counts[k])
  IN  IF reversed THEN block(4) \o block(3) \o block(2) \o block(1)
      ELSE block(1) \o block(2) \o block(3) \o block(4)

IssueListsToScore ==
  {IssueList(c, r) : c \in [1..4 -> 0..MaxPerSeverity], r \in BOOLEAN}

CalculateTrustScore ==
  /\ spc = "start"
  /\ trust_score' = Some(TrustScoreCalculate(score_issues))
  /\ spc' = "done"
  /\ UNCHANGED score_issues
  /\ UNCHANGED nonScoreVars

ScoreInit ==
  /\ score_issues \in IssueListsToScore
  /\ trust_score = None
  /\ spc = "start"

ScoreNext == CalculateTrustScore

\* no trust score is being calculated
ScoreIdle ==
  /\ score_issues = << >>
  /\ trust_score = None
  /\ spc = "idle"

(***************************************************************************)
(* Issue IDs (util.rs generate_issue_id).  A string is the sequence of its *)
(* characters; a path is the sequence of its components.                   *)
(***************************************************************************)
MaxLine == 99

\* the same character n times
RECURSIVE Rep(_, _)
Rep(c, n) == IF n = 0 THEN << >> ELSE << c >> \o Rep(c, n - 1)

\* Iterator::take
Take(s, n) == SubSeq(s, 1, Min(n, Len(s)))

\* the strings of a sequence joined with a separator
RECURSIVE Join(_, _)
Join(parts, sep) ==
  IF parts = << >> THEN << >>
  ELSE IF Len(parts) = 1 THEN Head(parts)
  ELSE Head(parts) \o sep \o Join(Tail(parts), sep)

\* char::to_uppercase for the characters of the model
ToUpperChar(c) ==
  CASE c = "a" -> "A" [] c = "b" -> "B" [] c = "c" -> "C" [] c = "d" -> "D"
    [] c = "e" -> "E" [] c = "f" -> "F" [] c = "g" -> "G" [] c = "k" -> "K"
    [] c = "l" -> "L" [] c = "n" -> "N" [] c = "o" -> "O" [] c = "p" -> "P"
    [] c = "s" -> "S" [] c = "u" -> "U" [] c = "v" -> "V" [] c = "w" -> "W"
    [] c = "x" -> "X"
    [] OTHER -> c

to_uppercase(s) == [k \in DOMAIN s |-> ToUpperChar(s[k])]

\* str::replace(from, to) for one character: '/' by "-"
ReplaceChar(s, from, to) == [k \in DOMAIN s |-> IF s[k] = from THEN to ELSE s[k]]

\* str::trim_start_matches('@')
RECURSIVE trim_start_matches(_, _)
trim_start_matches(s, c) ==
  IF s # << >> /\ Head(s) = c THEN trim_start_matches(Tail(s), c) ELSE s

\* str::replace("--", "-"): the matches from left to right, not overlapping
RECURSIVE ReplaceDoubleDash(_)
ReplaceDoubleDash(s) ==
  IF Len(s) < 2 THEN s
  ELSE IF s[1] = "-" /\ s[2] = "-" THEN << "-" >> \o ReplaceDoubleDash(SubSeq(s, 3, Len(s)))
  ELSE << Head(s) >> \o ReplaceDoubleDash(Tail(s))

NodeModules == << "n", "o", "d", "e", "_", "m", "o", "d", "u", "l", "e", "s" >>

\* extract_relative_path: the components after the package directory of the
\* last node_modules, if any follow it, else the last component
extract_relative_path(path) ==
  LET nm == {k \in 1..(Len(path) - 1) : path[k] = NodeModules}
      last_nm == CHOOSE k \in nm : \A j \in nm : j <= k
      after_nm == SubSeq(path, last_nm + 1, Len(path))
      pkg_len == IF after_nm # << >> /\ Head(after_nm) # << >> /\ Head(Head(after_nm)) = "@"
                 THEN 2 ELSE 1
  IN  IF nm # {} /\ Len(after_nm) > pkg_len
      THEN SubSeq(after_nm, pkg_len + 1, Len(after_nm))
      ELSE IF path = << >> THEN << >> ELSE << path[Len(path)] >>

\* the directory names removed from the relative path
BuildDirs == {<< "d", "i", "s", "t" >>, << "l", "i", "b" >>}

\* the chain of replace("dist/", "") ... replace("umd/", "")
RECURSIVE strip_build_dirs(_)
strip_build_dirs(path) ==
  IF Len(path) <= 1 THEN path
  ELSE IF Head(path) \in BuildDirs THEN strip_build_dirs(Tail(path))
  ELSE << Head(path) >> \o strip_build_dirs(Tail(path))

\* message.split_whitespace().take(4).join(" ").chars().take(40)
message_sig(words) == Take(Join(Take(words, 4), << " " >>), 40)

\* the first six hexadecimal digits of sha256_hash(hash_input), tabulated
\* for hash_input = "<relative>:<line_bucket>:<message_sig>"
Sha256Prefix(input) ==
  CASE
       input = << << "f", "i", "l", "e", ".", "j", "s" >>, 0, << "e", "v", "a", "l", " ", "d", "e", "t", "e", "c", "t", "e", "d" >> >> -> << "9", "7", "b", "9", "3", "5" >>
    [] input = << << "f", "i", "l", "e", ".", "j", "s" >>, 0, << "a", " ", "b", " ", "c", " ", "d" >> >> -> << "e", "b", "8", "a", "b", "a" >>
    [] input = << << "f", "i", "l", "e", ".", "j", "s" >>, 0, << "x", "x", "x", "x", "x", "x", "x", "x", "x", "x", "x", " ", "y", "y", "y", "y", "y", "y", "y", "y", "y", "y", "y", " ", "z", "z", "z", "z", "z", "z", "z", "z", "z", "z", "z", " ", "w", "w", "w", "w" >> >> -> << "e", "0", "7", "0", "1", "2" >>
    [] input = << << "f", "i", "l", "e", ".", "j", "s" >>, 20, << "e", "v", "a", "l", " ", "d", "e", "t", "e", "c", "t", "e", "d" >> >> -> << "7", "5", "f", "9", "f", "a" >>
    [] input = << << "f", "i", "l", "e", ".", "j", "s" >>, 20, << "a", " ", "b", " ", "c", " ", "d" >> >> -> << "7", "b", "b", "8", "1", "9" >>
    [] input = << << "f", "i", "l", "e", ".", "j", "s" >>, 20, << "x", "x", "x", "x", "x", "x", "x", "x", "x", "x", "x", " ", "y", "y", "y", "y", "y", "y", "y", "y", "y", "y", "y", " ", "z", "z", "z", "z", "z", "z", "z", "z", "z", "z", "z", " ", "w", "w", "w", "w" >> >> -> << "1", "a", "0", "f", "e", "9" >>
    [] input = << << "f", "i", "l", "e", ".", "j", "s" >>, 40, << "e", "v", "a", "l", " ", "d", "e", "t", "e", "c", "t", "e", "d" >> >> -> << "6", "8", "1", "8", "7", "d" >>
    [] input = << << "f", "i", "l", "e", ".", "j", "s" >>, 40, << "a", " ", "b", " ", "c", " ", "d" >> >> -> << "8", "6", "3", "d", "e", "a" >>
    [] input = << << "f", "i", "l", "e", ".", "j", "s" >>, 40, << "x", "x", "x", "x", "x", "x", "x", "x", "x", "x", "x", " ", "y", "y", "y", "y", "y", "y", "y", "y", "y", "y", "y", " ", "z", "z", "z", "z", "z", "z", "z", "z", "z", "z", "z", " ", "w", "w", "w", "w" >> >> -> << "0", "5", "6", "3", "9", "e" >>
    [] input = << << "f", "i", "l", "e", ".", "j", "s" >>, 60, << "e", "v", "a", "l", " ", "d", "e", "t", "e", "c", "t", "e", "d" >> >> -> << "0", "2", "9", "6", "e", "f" >>
    [] input = << << "f", "i", "l", "e", ".", "j", "s" >>, 60, << "a", " ", "b", " ", "c", " ", "d" >> >> -> << "3", "7", "8", "2", "e", "0" >>
    [] input = << << "f", "i", "l", "e", ".", "j", "s" >>, 60, << "x", "x", "x", "x", "x", "x", "x", "x", "x", "x", "x", " ", "y", "y", "y", "y", "y", "y", "y", "y", "y", "y", "y", " ", "z", "z", "z", "z", "z", "z", "z", "z", "z", "z", "z", " ", "w", "w", "w", "w" >> >> -> << "0", "2", "4", "b", "3", "6" >>
    [] input = << << "f", "i", "l", "e", ".", "j", "s" >>, 80, << "e", "v", "a", "l", " ", "d", "e", "t", "e", "c", "t", "e", "d" >> >> -> << "0", "3", "3", "f", "5", "4" >>
    [] input = << << "f", "i", "l", "e", ".", "j", "s" >>, 80, << "a", " ", "b", " ", "c", " ", "d" >> >> -> << "5", "8", "4", "2", "8", "f" >>
    [] input = << << "f", "i", "l", "e", ".", "j", "s" >>, 80, << "x", "x", "x", "x", "x", "x", "x", "x", "x", "x", "x", " ", "y", "y", "y", "y", "y", "y", "y", "y", "y", "y", "y", " ", "z", "z", "z", "z", "z", "z", "z", "z", "z", "z", "z", " ", "w", "w", "w", "w" >> >> -> << "3", "9", "2", "8", "e", "5" >>
    [] input = << << "f", "i", "l", "e", ".", "j", "s" >>, 100, << "e", "v", "a", "l", " ", "d", "e", "t", "e", "c", "t", "e", "d" >> >> -> << "a", "6", "5", "3", "4", "6" >>
    [] input = << << "f", "i", "l", "e", ".", "j", "s" >>, 100, << "a", " ", "b", " ", "c", " ", "d" >> >> -> << "e", "b", "d", "0", "4", "f" >>
    [] input = << << "f", "i", "l", "e", ".", "j", "s" >>, 100, << "x", "x", "x", "x", "x", "x", "x", "x", "x", "x", "x", " ", "y", "y", "y", "y", "y", "y", "y", "y", "y", "y", "y", " ", "z", "z", "z", "z", "z", "z", "z", "z", "z", "z", "z", " ", "w", "w", "w", "w" >> >> -> << "5", "9", "1", "1", "0", "2" >>
    [] input = << << "i", "n", "d", "e", "x", ".", "j", "s" >>, 0, << "e", "v", "a", "l", " ", "d", "e", "t", "e", "c", "t", "e", "d" >> >> -> << "a", "b", "2", "a", "7", "d" >>
    [] input = << << "i", "n", "d", "e", "x", ".", "j", "s" >>, 0, << "a", " ", "b", " ", "c", " ", "d" >> >> -> << "5", "8", "2", "8", "9", "f" >>
    [] input = << << "i", "n", "d", "e", "x", ".", "j", "s" >>, 0, << "x", "x", "x", "x", "x", "x", "x", "x", "x", "x", "x", " ", "y", "y", "y", "y", "y", "y", "y", "y", "y", "y", "y", " ", "z", "z", "z", "z", "z", "z", "z", "z", "z", "z", "z", " ", "w", "w", "w", "w" >> >> -> << "5", "3", "5", "9", "c", "7" >>
    [] input = << << "i", "n", "d", "e", "x", ".", "j", "s" >>, 20, << "e", "v", "a", "l", " ", "d", "e", "t", "e", "c", "t", "e", "d" >> >> -> << "c", "1", "e", "0", "d", "5" >>
    [] input = << << "i", "n", "d", "e", "x", ".", "j", "s" >>, 20, << "a", " ", "b", " ", "c", " ", "d" >> >> -> << "5", "e", "5", "7", "7", "c" >>
    [] input = << << "i", "n", "d", "e", "x", ".", "j", "s" >>, 20, << "x", "x", "x", "x", "x", "x", "x", "x", "x", "x", "x", " ", "y", "y", "y", "y", "y", "y", "y", "y", "y", "y", "y", " ", "z", "z", "z", "z", "z", "z", "z", "z", "z", "z", "z", " ", "w", "w", "w", "w" >> >> -> << "c", "b", "b", "a", "2", "1" >>
    [] input = << << "i", "n", "d", "e", "x", ".", "j", "s" >>, 40, << "e", "v", "a", "l", " ", "d", "e", "t", "e", "c", "t", "e", "d" >> >> -> << "1", "9", "5", "a", "0", "5" >>
    [] input = << << "i", "n", "d", "e", "x", ".", "j", "s" >>, 40, << "a", " ", "b", " ", "c", " ", "d" >> >> -> << "5", "4", "5", "3", "2", "1" >>
    [] input = << << "i", "n", "d", "e", "x", ".", "j", "s" >>, 40, << "x", "x", "x", "x", "x", "x", "x", "x", "x", "x", "x", " ", "y", "y", "y", "y", "y", "y", "y", "y", "y", "y", "y", " ", "z", "z", "z", "z", "z", "z", "z", "z", "z", "z", "z", " ", "w", "w", "w", "w" >> >> -> << "c", "9", "3", "6", "c", "8" >>
    [] input = << << "i", "n", "d", "e", "x", ".", "j", "s" >>, 60, << "e", "v", "a", "l", " ", "d", "e", "t", "e", "c", "t", "e", "d" >> >> -> << "e", "b", "6", "c", "2", "6" >>
    [] input = << << "i", "n", "d", "e", "x", ".", "j", "s" >>, 60, << "a", " ", "b", " ", "c", " ", "d" >> >> -> << "a", "c", "6", "4", "9", "c" >>
    [] input = << << "i", "n", "d", "e", "x", ".", "j", "s" >>, 60, << "x", "x", "x", "x", "x", "x", "x", "x", "x", "x", "x", " ", "y", "y", "y", "y", "y", "y", "y", "y", "y", "y", "y", " ", "z", "z", "z", "z", "z", "z", "z", "z", "z", "z", "z", " ", "w", "w", "w", "w" >> >> -> << "4", "1", "a", "b", "9", "c" >>
    [] input = << << "i", "n", "d", "e", "x", ".", "j", "s" >>, 80, << "e", "v", "a", "l", " ", "d", "e", "t", "e", "c", "t", "e", "d" >> >> -> << "c", "1", "b", "b", "e", "a" >>
    [] input = << << "i", "n", "d", "e", "x", ".", "j", "s" >>, 80, << "a", " ", "b", " ", "c", " ", "d" >> >> -> << "5", "b", "6", "d", "8", "d" >>
    [] input = << << "i", "n", "d", "e", "x", ".", "j", "s" >>, 80, << "x", "x", "x", "x", "x", "x", "x", "x", "x", "x", "x", " ", "y", "y", "y", "y", "y", "y", "y", "y", "y", "y", "y", " ", "z", "z", "z", "z", "z", "z", "z", "z", "z", "z", "z", " ", "w", "w", "w", "w" >> >> -> << "d", "0", "f", "e", "5", "4" >>
    [] input = << << "i", "n", "d", "e", "x", ".", "j", "s" >>, 100, << "e", "v", "a", "l", " ", "d", "e", "t", "e", "c", "t", "e", "d" >> >> -> << "5", "9", "4", "6", "0", "f" >>
    [] input = << << "i", "n", "d", "e", "x", ".", "j", "s" >>, 100, << "a", " ", "b", " ", "c", " ", "d" >> >> -> << "5", "a", "0", "8", "3", "f" >>
    [] input = << << "i", "n", "d", "e", "x", ".", "j", "s" >>, 100, << "x", "x", "x", "x", "x", "x", "x", "x", "x", "x", "x", " ", "y", "y", "y", "y", "y", "y", "y", "y", "y", "y", "y", " ", "z", "z", "z", "z", "z", "z", "z", "z", "z", "z", "z", " ", "w", "w", "w", "w" >> >> -> << "b", "e", "1", "d", "9", "b" >>
    [] input = << << "a", ".", "j", "s" >>, 0, << "e", "v", "a", "l", " ", "d", "e", "t", "e", "c", "t", "e", "d" >> >> -> << "c", "8", "b", "0", "0", "5" >>
    [] input = << << "a", ".", "j", "s" >>, 0, << "a", " ", "b", " ", "c", " ", "d" >> >> -> << "1", "d", "f", "f", "2", "b" >>
    [] input = << << "a", ".", "j", "s" >>, 0, << "x", "x", "x", "x", "x", "x", "x", "x", "x", "x", "x", " ", "y", "y", "y", "y", "y", "y", "y", "y", "y", "y", "y", " ", "z", "z", "z", "z", "z", "z", "z", "z", "z", "z", "z", " ", "w", "w", "w", "w" >> >> -> << "6", "1", "b", "f", "d", "6" >>
    [] input = << << "a", ".", "j", "s" >>, 20, << "e", "v", "a", "l", " ", "d", "e", "t", "e", "c", "t", "e", "d" >> >> -> << "d", "5", "f", "f", "3", "3" >>
    [] input = << << "a", ".", "j", "s" >>, 20, << "a", " ", "b", " ", "c", " ", "d" >> >> -> << "7", "0", "9", "e", "e", "8" >>
    [] input = << << "a", ".", "j", "s" >>, 20, << "x", "x", "x", "x", "x", "x", "x", "x", "x", "x", "x", " ", "y", "y", "y", "y", "y", "y", "y", "y", "y", "y", "y", " ", "z", "z", "z", "z", "z", "z", "z", "z", "z", "z", "z", " ", "w", "w", "w", "w" >> >> -> << "9", "5", "3", "9", "8", "a" >>
    [] input = << << "a", ".", "j", "s" >>, 40, << "e", "v", "a", "l", " ", "d", "e", "t", "e", "c", "t", "e", "d" >> >> -> << "f", "e", "5", "8", "e", "5" >>
    [] input = << << "a", ".", "j", "s" >>, 40, << "a", " ", "b", " ", "c", " ", "d" >> >> -> << "8", "b", "5", "2", "6", "3" >>
    [] input = << << "a", ".", "j", "s" >>, 40, << "x", "x", "x", "x", "x", "x", "x", "x", "x", "x", "x", " ", "y", "y", "y", "y", "y", "y", "y", "y", "y", "y", "y", " ", "z", "z", "z", "z", "z", "z", "z", "z", "z", "z", "z", " ", "w", "w", "w", "w" >> >> -> << "4", "c", "5", "d", "6", "6" >>
    [] input = << << "a", ".", "j", "s" >>, 60, << "e", "v", "a", "l", " ", "d", "e", "t", "e", "c", "t", "e", "d" >> >> -> << "c", "a", "e", "9", "9", "c" >>
    [] input = << << "a", ".", "j", "s" >>, 60, << "a", " ", "b", " ", "c", " ", "d" >> >> -> << "5", "d", "0", "7", "0", "5" >>
    [] input = << << "a", ".", "j", "s" >>, 60, << "x", "x", "x", "x", "x", "x", "x", "x", "x", "x", "x", " ", "y", "y", "y", "y", "y", "y", "y", "y", "y", "y", "y", " ", "z", "z", "z", "z", "z", "z", "z", "z", "z", "z", "z", " ", "w", "w", "w", "w" >> >> -> << "2", "3", "4", "9", "9", "b" >>
    [] input = << << "a", ".", "j", "s" >>, 80, << "e", "v", "a", "l", " ", "d", "e", "t", "e", "c", "t", "e", "d" >> >> -> << "b", "f", "9", "e", "b", "3" >>
    [] input = << << "a", ".", "j", "s" >>, 80, << "a", " ", "b", " ", "c", " ", "d" >> >> -> << "b", "d", "6", "e", "0", "c" >>
    [] input = << << "a", ".", "j", "s" >>, 80, << "x", "x", "x", "x", "x", "x", "x", "x", "x", "x", "x", " ", "y", "y", "y", "y", "y", "y", "y", "y", "y", "y", "y", " ", "z", "z", "z", "z", "z", "z", "z", "z", "z", "z", "z", " ", "w", "w", "w", "w" >> >> -> << "d", "c", "c", "8", "a", "4" >>
    [] input = << << "a", ".", "j", "s" >>, 100, << "e", "v", "a", "l", " ", "d", "e", "t", "e", "c", "t", "e", "d" >> >> -> << "c", "e", "5", "8", "9", "5" >>
    [] input = << << "a", ".", "j", "s" >>, 100, << "a", " ", "b", " ", "c", " ", "d" >> >> -> << "f", "b", "c", "8", "d", "1" >>
    [] input = << << "a", ".", "j", "s" >>, 100, << "x", "x", "x", "x", "x", "x", "x", "x", "x", "x", "x", " ", "y", "y", "y", "y", "y", "y", "y", "y", "y", "y", "y", " ", "z", "z", "z", "z", "z", "z", "z", "z", "z", "z", "z", " ", "w", "w", "w", "w" >> >> -> << "3", "b", "2", "1", "e", "9" >>
    [] OTHER -> << "0", "0", "0", "0", "0", "0" >>

normalize_line_bucket_rounding_up(line) == ((line + 19) \div 20) * 20

normalize_line_bucket(line) == (line \div 20) * 20

generate_issue_id(analyzer, file_path, line, message, package_name) ==
  LET pkg_prefix == IF package_name.some
                    THEN Take(ReplaceChar(trim_start_matches(package_name.value, "@"),
                                          "/", "-"), 8)
                    ELSE << "u", "n", "k", "n", "o", "w", "n" >>
      relative_path == extract_relative_path(file_path)
      normalized_relative == strip_build_dirs(relative_path)
      line_bucket == normalize_line_bucket(line)
      hash == Sha256Prefix(<< Join(normalized_relative, << "/" >>), line_bucket,
                              message_sig(message) >>)
      id == pkg_prefix \o << "-" >> \o analyzer \o << "-" >> \o hash
      cleaned == ReplaceDoubleDash(id)
  IN  to_uppercase(cleaned)

IdAnalyzers == {<< "e", "v", "a", "l" >>, << "f", "s" >>}

IdPaths ==
  { << << "s", "r", "c" >>, << "f", "i", "l", "e", ".", "j", "s" >> >>,
    << NodeModules, << "p", "k", "g" >>, << "d", "i", "s", "t" >>,
       << "i", "n", "d", "e", "x", ".", "j", "s" >> >>,
    << << "a", "p", "p" >>, NodeModules, << "@", "s" >>, << "p", "k", "g" >>,
       << "l", "i", "b" >>, << "a", ".", "j", "s" >> >> }

IdMessages ==
  { << << "e", "v", "a", "l" >>, << "d", "e", "t", "e", "c", "t", "e", "d" >> >>,
    << << "a" >>, << "b" >>, << "c" >>, << "d" >>, << "e" >> >>,
    << Rep("x", 11), Rep("y", 11), Rep("z", 11), Rep("w", 11) >> }

IdPackages ==
  { None, Some(<< "p", "k", "g" >>),
    Some(<< "@", "a", "b", "c", "d", "e", "f", "g", "/", "x" >>) }

GenerateIssueId ==
  /\ ipc = "start"
  /\ issue_id' = Some(generate_issue_id(id_input.analyzer, id_input.file_path,
                                        id_input.line, id_input.message,
                                        id_input.package_name))
  /\ ipc' = "done"
  /\ UNCHANGED id_input
  /\ UNCHANGED nonIdVars

NoIdInput ==
  [analyzer |-> << >>, file_path |-> << >>, line |-> 0, message |-> << >>,
   package_name |-> None]

IdInit ==
  /\ id_input \in [analyzer : IdAnalyzers, file_path : IdPaths, line : 0..MaxLine,
                   message : IdMessages, package_name : IdPackages]
  /\ issue_id = None
  /\ ipc = "start"

IdNext == GenerateIssueId

\* no issue ID is being generated
IdIdle ==
  /\ id_input = NoIdInput
  /\ issue_id = None
  /\ ipc = "idle"

(***************************************************************************)
(* The specifications: the analysis pipeline over successive runs, and the *)
(* dependency classification of one manifest.                              *)
(***************************************************************************)
Init == PipeInit /\ DepsIdle /\ NetIdle /\ FileIdle /\ VarMapIdle /\ ScoreIdle /\ IdIdle

Next == PipeNext

Spec == Init /\ [][Next]_vars

InitDeps == DepsInit /\ PipeIdle /\ NetIdle /\ FileIdle /\ VarMapIdle /\ ScoreIdle /\ IdIdle

NextDeps == DepsNext

SpecDeps == InitDeps /\ [][NextDeps]_vars

\* The classification of the manifests with cycles.  build is one thread
\* running a while loop: as long as a step of the loop is possible the
\* thread takes it, which is weak fairness of the loop's steps.
InitDepsCyclic ==
  DepsInitCyclic /\ PipeIdle /\ NetIdle /\ FileIdle /\ VarMapIdle /\ ScoreIdle /\ IdIdle

NextDepsCyclic == DepsNext

SpecDepsCyclic == InitDepsCyclic /\ [][NextDepsCyclic]_vars /\ WF_vars(NextDepsCyclic)

InitRegistry == NetIdle /\ PipeIdle /\ DepsIdle /\ FileIdle /\ VarMapIdle /\ ScoreIdle /\ IdIdle

NextRegistry == RegistryNext

SpecRegistry == InitRegistry /\ [][NextRegistry]_vars

InitNet == NetInit /\ PipeIdle /\ DepsIdle /\ FileIdle /\ VarMapIdle /\ ScoreIdle /\ IdIdle

NextNet == NetNext

SpecNet == InitNet /\ [][NextNet]_vars

InitOsv == OsvInit /\ PipeIdle /\ DepsIdle /\ FileIdle /\ VarMapIdle /\ ScoreIdle /\ IdIdle

NextOsv == OsvNext

SpecOsv == InitOsv /\ [][NextOsv]_vars

InitFile == FileInit /\ PipeIdle /\ DepsIdle /\ NetIdle /\ VarMapIdle /\ ScoreIdle /\ IdIdle

NextFile == FileNext

SpecFile == InitFile /\ [][NextFile]_vars

InitVarMap == VarMapInit /\ PipeIdle /\ DepsIdle /\ NetIdle /\ FileIdle /\ ScoreIdle /\ IdIdle

NextVarMap == VarMapNext

SpecVarMap == InitVarMap /\ [][NextVarMap]_vars

\* the loop over the assignments is not suspended: every turn that can be
\* taken is taken
SpecVarMapLive == SpecVarMap /\ WF_vars(NextVarMap)

InitScore == ScoreInit /\ PipeIdle /\ DepsIdle /\ NetIdle /\ FileIdle /\ VarMapIdle /\ IdIdle

NextScore == ScoreNext

SpecScore == InitScore /\ [][NextScore]_vars

InitId == IdInit /\ PipeIdle /\ DepsIdle /\ NetIdle /\ FileIdle /\ VarMapIdle /\ ScoreIdle

NextId == IdNext

SpecId == InitId /\ [][NextId]_vars

(***************************************************************************)
(* Properties of the pipeline.                                             *)
(***************************************************************************)
IssueIds(issues) == {issues[j].id : j \in 1..Len(issues)}

\* The properties of a run speak of the inputs the run was given: they are
\* stated for the states in which the environment has not changed since
\* (~changed).

\* every AnalysisResult the current run has produced so far
ProducedResults == Range(cached_results) \cup Range(analyzed) \cup Range(results)

\* what the active analyzers emitted for a package, before any filtering
EmittedByActive(pkg) ==
  analyze_package(pkg, content[pkg], active_analyzers, severity_override)
  \o analyze_file_with_package(pkg, content[pkg], active_analyzers, severity_override)

\* C1: in every AnalysisResult of a run, fresh or served from the cache, no
\* two issues of the issue list carry the same id.
C1_UniqueIssueIds ==
  \A r \in ProducedResults :
    \A j, k \in 1..Len(r.issues) : j # k => r.issues[j].id # r.issues[k].id

\* C1 witness: a result served from the cache with several issues, stored by
\* a run whose analyzers emitted one id twice.
C1_Witness ==
  \E k \in 1..Len(cached_results) :
    /\ cached_results[k].is_from_cache
    /\ Len(cached_results[k].issues) >= 2
    /\ Len(Emitted(cached_results[k].package, content[cached_results[k].package]))
         > Cardinality(IssueIds(Emitted(cached_results[k].package,
                                        content[cached_results[k].package])))

\* C2: every emitted issue whose id matches an ignore entry under the ignore
\* matching rule (equal, or equal prefixes before the rightmost hyphen) is
\* absent from the analyzed result and its id is in the used-ignored set.
C2_IgnoreMatchingRule ==
  ~changed => \A k \in 1..Len(analyzed) :
    LET emitted == EmittedByActive(analyzed[k].package)
    IN \A j \in 1..Len(emitted) :
         (\E g \in 1..Len(ignore_issues) :
             matches_ignore_id(emitted[j].id, ignore_issues[g]))
         => /\ emitted[j].id \notin IssueIds(analyzed[k].issues)
            /\ emitted[j].id \in ignored_ids

\* the rank of a failure level among the severities
LevelRank(level) ==
  CASE level = "low" -> 0
    [] level = "medium" -> 1
    [] level \in {"high", "HIGH"} -> 2
    [] level = "critical" -> 3

\* the failure level in force: "high" unless the configuration sets one
LevelInForce == IF exit_level = "unset" THEN "high" ELSE exit_level

\* C3: a run ends with the failure status iff the failure level is not
\* `off` and some issue of the returned results (deduplicated and ignore
\* filtered) has a severity at or above it.
C3_ExitStatus ==
  pc = "done" =>
    (exit_status = "failure"
       <=> /\ LevelInForce # "off"
           /\ \E k \in 1..Len(results) : \E j \in 1..Len(results[k].issues) :
                SeverityOrd(results[k].issues[j].severity) >= LevelRank(LevelInForce))

\* C3 witness: a failing run whose worst issue is exactly at the level.
C3_Witness ==
  /\ pc = "done"
  /\ exit_status = "failure"
  /\ exit_level = "high"
  /\ \A k \in 1..Len(results) : \A j \in 1..Len(results[k].issues) :
       results[k].issues[j].severity # "critical"

\* the issues stored in the cache entry of a package
CachedIssues(pkg) == entries[pkg].results[1].issues

\* C4: a result is marked is_from_cache only when every active analyzer is
\* the type of some cached issue, and its issues are the cached issues of
\* active type; a package whose fresh entry lacks an active analyzer is a
\* work item, and every work item is re-analyzed and re-cached.
C4_CoverageGate ==
  ~changed =>
  /\ \A r \in Range(analyzed) : ~r.is_from_cache
  /\ \A r \in Range(cached_results) :
       /\ r.is_from_cache
       /\ entries[r.package].present
       /\ \A a \in active_analyzers :
            \E j \in 1..Len(CachedIssues(r.package)) :
              CachedIssues(r.package)[j].issue_type = a
       /\ r.issues = SelectSeq(CachedIssues(r.package),
                               LAMBDA i : i.issue_type \in active_analyzers)
  /\ \A p \in scanned :
       (/\ entries[p].present
        /\ \E a \in active_analyzers :
             \A j \in 1..Len(CachedIssues(p)) : CachedIssues(p)[j].issue_type # a)
       => p \in Range(work_items)
  /\ pc \in {"exit", "done"} =>
       \A p \in Range(work_items) :
         \E k \in 1..Len(analyzed) :
           /\ analyzed[k].package = p
           /\ cache_enabled =>
                entries[p] = [present |-> TRUE,
                              content_hash |-> compute_hash(content[p]),
                              results |-> << analyzed[k] >>, timestamp |-> now]

\* C4 witness: in one run, a package served from the cache with the cached
\* issues of an inactive analyzer filtered out, and a package with a fresh
\* entry that lacks an active analyzer, re-analyzed.
C4_Witness ==
  /\ pc = "exit"
  /\ prev.valid
  /\ prev.content = content
  /\ prev.now = now
  /\ prev.cache_enabled
  /\ \E k \in 1..Len(cached_results) :
       Len(cached_results[k].issues) < Len(CachedIssues(cached_results[k].package))
  /\ work_items # << >>

\* C5: with caching enabled and with sources, active analyzers and ignore
\* list unchanged, a run yields for every package the issue ids and the
\* trust score of the run before it.
C5_SecondRunSame ==
  (/\ pc = "exit"
   /\ prev.valid
   /\ cache_enabled
   /\ prev.content = content
   /\ prev.active = active_analyzers
   /\ prev.ignore = ignore_issues)
  => \A p \in Pkgs :
       /\ Outcome(cached_results, analyzed)[p].ids = prev.outcome[p].ids
       /\ Outcome(cached_results, analyzed)[p].trust_score = prev.outcome[p].trust_score

\* the freshness conditions of a cache entry
EntryFresh(pkg) ==
  /\ entries[pkg].present
  /\ entries[pkg].content_hash = compute_hash(content[pkg])
  /\ now - entries[pkg].timestamp <= CacheMaxAge

C7_FailFastFirstWithIssues ==
  pc \in {"exit", "done"} =>
    LET all == cached_results \o analyzed
    IN IF fail_fast /\ AnyIssues(all)
       THEN /\ Len(results) = 1
            /\ \E k \in 1..Len(all) :
                 /\ all[k].issues # << >>
                 /\ \A j \in 1..(k-1) : all[j].issues = << >>
                 /\ results[1] = all[k]
       ELSE results = all


(***************************************************************************)
(* Properties of the dependency classification.                            *)
(***************************************************************************)
\* Direct > Peer > Optional > Dev
Priority(type) ==
  CASE type = "direct" -> 3
    [] type = "peer" -> 2
    [] type = "optional" -> 1
    [] OTHER -> 0

\* the names reachable from the root lists through the lists of installed packages
RECURSIVE Closure(_, _)
Closure(m, S) ==
  LET step == S \cup {e[3] : e \in {x \in m.edges : x[1] \in S}}
  IN  IF step = S THEN S ELSE Closure(m, step)

Reachable(m) == Closure(m, {r[2] : r \in m.roots})

\* C8: when an already classified package is dequeued again with a type of
\* higher priority (Direct > Peer > Optional > Dev) its recorded type becomes
\* that type, and no step replaces a recorded type by a type of equal or
\* lower priority.
C8_UpgradeByPriority ==
  [][ /\ \A n \in DOMAIN package_types :
           /\ n \in DOMAIN package_types'
           /\ package_types'[n] # package_types[n]
                => Priority(package_types'[n]) > Priority(package_types[n])
      /\ ( /\ dpc = "bfs"
           /\ queue # << >>
           /\ Head(queue).name \in DOMAIN package_types
           /\ Priority(Head(queue).type) > Priority(package_types[Head(queue).name]) )
         => package_types'[Head(queue).name] = Head(queue).type
    ]_vars

\* an Optional package was dequeued again as Peer and upgraded, and a package
\* was dequeued again with a type of no higher priority and kept its type
C8_Witness ==
  /\ \E r \in redequeues :
       r.existing = "optional" /\ r.dequeued = "peer" /\ r.recorded = "peer"
  /\ \E r \in redequeues :
       Priority(r.dequeued) <= Priority(r.existing) /\ r.recorded = r.existing

C10_UnknownIffUnreachable ==
  dpc = "built" =>
    \A n \in Names :
      get_type(package_types, n) = "unknown" <=> n \notin Reachable(manifest)

\* the graph is built, one package is Unknown, and one package that is in no
\* root list got its type through a list of an installed package
C10_Witness ==
  /\ dpc = "built"
  /\ \E n \in Names : get_type(package_types, n) = "unknown"
  /\ \E n \in Names :
       /\ n \notin {r[2] : r \in manifest.roots}
       /\ get_type(package_types, n) \in {"direct", "dev", "optional", "peer"}

(***************************************************************************)
(* Properties of the registry client.                                      *)
(***************************************************************************)
\* a response the spec has retried: a 5xx or 429 status, or a network error
Retryable(response) ==
  ~response.sent \/ response.status >= 500 \/ response.status = 429

\* the requests of a call that were answered with 404
NotFoundAt(f) ==
  {k \in 0..(f.requests - 1) : f.responses[k].sent /\ f.responses[k].status = 404}

\* C11: a registry request answered with 5xx or 429, or failing with a
\* network error, is retried at most 3 times, after delays of 100 ms, 200 ms
\* and 400 ms; only such requests are retried, they are retried while fewer
\* than 3 retries were made, and when the last retry fails too the call
\* returns an error.
C11_RetryWithBackoff ==
  last_fetch.valid =>
    LET retries == last_fetch.requests - 1
    IN  /\ retries \in 0..3
        /\ last_fetch.sleeps = SubSeq(<< 100, 200, 400 >>, 1, retries)
        /\ \A k \in 0..(retries - 1) : Retryable(last_fetch.responses[k])
        /\ Retryable(last_fetch.responses[retries]) =>
             retries = 3 /\ ~last_fetch.result.ok

\* a call whose four requests fail in the three ways: 503, 429, network
\* error, 503
C11_Witness ==
  /\ last_fetch.valid
  /\ last_fetch.responses[0] = HttpResponse(503, FALSE)
  /\ last_fetch.responses[1] = HttpResponse(429, FALSE)
  /\ last_fetch.responses[2] = SendError
  /\ last_fetch.responses[3] = HttpResponse(503, FALSE)
  /\ last_fetch.requests = 4
  /\ last_fetch.sleeps = << 100, 200, 400 >>
  /\ ~last_fetch.result.ok

(***************************************************************************)
(* Properties of the prefetch and of the package analyzers.                *)
(***************************************************************************)
\* every run of an analyzer on a work item of the scan, with its item
AnalyzerRuns ==
  UNION { {[item |-> i, run |-> net_issues[i][k]] : k \in 1..Len(net_issues[i])} :
          i \in 1..Len(net_issues) }

\* the run looked its metadata up at the registry and was answered 404
AnsweredNotFound(r) ==
  /\ r.run.lookup.valid
  /\ r.run.lookup.fetch.valid
  /\ NotFoundAt(r.run.lookup.fetch) # {}

\* C12: a request the registry answers with 404 is the last request of its
\* call (it is not retried) and the call fails; the analyzer whose lookup
\* ended so gets no metadata, returns (the scan goes on) and reports no issue
\* for the package.
C12_NotFoundAbsorbed ==
  /\ last_fetch.valid =>
       \A k \in NotFoundAt(last_fetch) :
         k = last_fetch.requests - 1 /\ ~last_fetch.result.ok
  /\ \A r \in AnalyzerRuns :
       AnsweredNotFound(r) =>
         /\ \A k \in NotFoundAt(r.run.lookup.fetch) :
              k = r.run.lookup.fetch.requests - 1
         /\ r.run.data = "missing"
         /\ r.run.issues = {}

\* the scan is through; the deprecated analyzer of a@1.0.0 (a deprecated
\* version) was answered 404 and reported nothing, and another analyzer of
\* the same work item reported an issue
C12_Witness ==
  /\ npc = "done"
  /\ \E r \in AnalyzerRuns :
       /\ AnsweredNotFound(r)
       /\ r.run.analyzer = "deprecated"
       /\ packages[r.item].version \in Packument(packages[r.item].name).deprecated
       /\ r.run.lookup.fetch.requests = 1
       /\ \E o \in AnalyzerRuns : o.item = r.item /\ o.run.issues # {}

\* the order in which a lookup may consult its sources
LookupOrder(l) ==
  IF l.via = "get_metadata"
  THEN << "prefetched", "memory", "disk", "registry" >>
  ELSE << "memory", "disk", "registry" >>

\* a lookup consults the maps in memory, then the disk, then the registry,
\* stops at the first that answers, and sends requests only to the registry
SourcesInOrder(l) ==
  /\ \E n \in 1..Len(LookupOrder(l)) : l.consulted = SubSeq(LookupOrder(l), 1, n)
  /\ l.requests > 0 => l.consulted[Len(l.consulted)] = "registry"
  /\ l.consulted[Len(l.consulted)] = "registry" =>
       ~l.prefetched_before /\ ~l.memory_before /\ l.disk_before # "valid"
  /\ l.consulted[Len(l.consulted)] = "disk" =>
       ~l.prefetched_before /\ ~l.memory_before /\ l.disk_before = "valid"

QueriedItem(e, j) == packages[e.first + j - 1]

\* C14: the work items go to the vulnerability service in consecutive chunks
\* of at most 500 queries, one request per chunk, every work item in exactly
\* one chunk; after a request that succeeded, the list stored under
\* "name@version" of the chunk's i-th work item is the list built from the
\* i-th entry of the response.
C14_ChunksMappedByOrder ==
  /\ \A c \in 1..Len(osv_log) :
       LET e == osv_log[c]
       IN  /\ e.queries \in 1..500
           /\ e.first = (IF c = 1 THEN 1 ELSE osv_log[c - 1].first + osv_log[c - 1].queries)
           /\ e.first + e.queries - 1 <= Len(packages)
           /\ c < Len(osv_log) => e.queries = 500
           /\ e.outcome \in {"ok", "short"} =>
                \A j \in 1..Len(e.results) :
                  vulnerabilities[cache_key(QueriedItem(e, j).name,
                                            QueriedItem(e, j).version)]
                    = Some(BuildVulns(e.results[j]))
  /\ npc = "analyze" /\ osv_log # << >> =>
       LET last == osv_log[Len(osv_log)]
       IN  last.first + last.queries - 1 = Len(packages)

\* 1001 work items went out in three requests of 500, 500 and 1 queries; the
\* second succeeded, and the list of a@1.0.0 holds its two vulnerabilities
C14_Witness ==
  /\ npc = "analyze"
  /\ Len(packages) = 1001
  /\ Len(osv_log) = 3
  /\ osv_log[1].queries = 500
  /\ osv_log[2].queries = 500
  /\ osv_log[2].outcome = "ok"
  /\ osv_log[3].queries = 1
  /\ vulnerabilities[cache_key("a", "1.0.0")]
       = Some(<< VulnerabilityInfo("GHSA-1"), VulnerabilityInfo("CVE-2") >>)

\* the keys some parsed response of the scan had an entry for
AnsweredKeys ==
  UNION { {cache_key(QueriedItem(osv_log[c], j).name, QueriedItem(osv_log[c], j).version) :
             j \in 1..Len(osv_log[c].results)} : c \in 1..Len(osv_log) }

\* the most recent lookup is a lookup of prefetch_metadata that failed
PrefetchLookupFailed ==
  /\ last_lookup.valid
  /\ last_lookup.via = "get_package_cached"
  /\ ~last_lookup.found

\* C15: a request that fails during prefetch leaves its key absent from the
\* prefetched maps (a name whose metadata request failed has no metadata
\* when the analysis begins, a key has a vulnerability list only if a parsed
\* response had an entry for it); the scan goes on (every chunk is requested
\* whatever happened to the chunks before it, and the analysis follows); and
\* a network-dependent analyzer that obtains no data reports no issues.
C15_PrefetchFailureAbsorbed ==
  /\ (PrefetchLookupFailed /\ AnalyzerRuns = {}) =>
       /\ ~metadata[last_lookup.name].some
       /\ \A r \in fetched : r[1] # last_lookup.name
  /\ (npc \in {"analyze", "done"} /\ ~offline) => Len(osv_log) = NumChunks(packages)
  /\ \A k \in Keys : vulnerabilities[k].some <=> k \in AnsweredKeys
  /\ \A r \in AnalyzerRuns :
       (requires_network(r.run.analyzer) /\ r.run.data = "missing") => r.run.issues = {}

\* the scan is through although the vulnerability request and the metadata
\* requests of a@1.0.0 failed: its cve and deprecated analyzers had no data
\* and reported nothing, its scripts analyzer reported an issue
C15_Witness ==
  /\ npc = "done"
  /\ Len(osv_log) = 1
  /\ osv_log[1].outcome = "send_error"
  /\ \E i \in 1..Len(packages) :
       /\ packages[i] = WorkItem("a", "1.0.0", FALSE)
       /\ \E r \in AnalyzerRuns :
            /\ r.item = i /\ r.run.analyzer = "cve"
            /\ r.run.data = "missing" /\ r.run.issues = {}
       /\ \E r \in AnalyzerRuns :
            /\ r.item = i /\ r.run.analyzer = "deprecated"
            /\ r.run.data = "missing" /\ r.run.issues = {}
            /\ r.run.lookup.fetch.valid
            /\ r.run.lookup.fetch.requests = 4
       /\ \E r \in AnalyzerRuns :
            r.item = i /\ r.run.analyzer = "scripts" /\ r.run.issues # {}

\* C16: in offline mode no network-requiring package analyzer runs and the
\* prefetcher is not invoked (no prefetch step, no lookup, no request, empty
\* prefetched maps); on a Local package no network-requiring package
\* analyzer runs, offline or not.
C16_OfflineAndLocal ==
  /\ offline =>
       /\ \A r \in AnalyzerRuns : ~requires_network(r.run.analyzer)
       /\ npc # "prefetch"
       /\ osv_log = << >>
       /\ ~last_lookup.valid
       /\ ~last_fetch.valid
       /\ metadata = NoMetadata
       /\ vulnerabilities = NoVulnerabilities
  /\ \A r \in AnalyzerRuns :
       packages[r.item].is_local => ~requires_network(r.run.analyzer)

\* a scan that is not offline is through: the Local package b@1.0.0 was
\* analyzed by the three analyzers that need no network, the installed
\* package a@next by all eight
C16_WitnessLocal ==
  /\ ~offline
  /\ npc = "done"
  /\ packages = << WorkItem("a", "next", FALSE), WorkItem("b", "1.0.0", TRUE) >>
  /\ Len(net_issues[1]) = 8
  /\ Len(net_issues[2]) = 3
  /\ \E r \in AnalyzerRuns : r.item = 2 /\ r.run.issues # {}

\* the same work items analyzed offline
C16_Witness ==
  /\ offline
  /\ npc = "done"
  /\ packages = << WorkItem("a", "next", FALSE), WorkItem("b", "1.0.0", TRUE) >>
  /\ Len(net_issues[1]) = 3
  /\ Len(net_issues[2]) = 3

\* C17, for package analyzers: a panic of an analyzer does not end the scan;
\* the analyzer that panicked contributes no issues and the others run.
C17_PackagePanicIsolated == npc # "panicked"


(***************************************************************************)
(* File analysis: properties checked on SpecFile.                          *)
(***************************************************************************)
Oversized == source_file.size > file_config.max_file_size

FileRuns == {file_runs[k] : k \in DOMAIN file_runs}

AnalyzersRun == {r.analyzer : r \in FileRuns}

\* A panic inside a file analyzer is caught: the analyzer contributes no
\* issues, and the analyzers after it still run and report.
FilePanicIsolated ==
  /\ \A r \in FileRuns : r.panicked => r.issues = {}
  /\ fpc = "done" =>
       \A k \in DOMAIN file_analyzers :
         runs_on(file_analyzers[k], source_file.size, file_config.max_file_size)
           => file_analyzers[k] \in AnalyzersRun

\* C18: for a file whose size exceeds max_file_size no analyzer with
\* uses_ast = true runs or produces an issue, while every analyzer with
\* uses_ast = false still runs on it (and reports, unless it panicked).
C18_OversizedSkipsAst ==
  Oversized =>
    /\ \A r \in FileRuns : ~uses_ast(r.analyzer)
    /\ \A r \in FileRuns : \A i \in r.issues : ~uses_ast(i.analyzer)
    /\ fpc = "done" =>
         \A k \in DOMAIN file_analyzers :
           ~uses_ast(file_analyzers[k]) =>
             \E r \in FileRuns : /\ r.analyzer = file_analyzers[k]
                                 /\ ~r.panicked => r.issues # {}

\* an oversized file with a non-empty syntax tree has been analyzed, and the
\* raw-text analyzers reported on it
C18_Witness ==
  /\ fpc = "done"
  /\ Oversized
  /\ source_file.nodes # << >>
  /\ \E r \in FileRuns : r.analyzer = "base64" /\ r.issues # {}
  /\ \E r \in FileRuns : r.analyzer = "minified" /\ r.issues # {}

\* C19: during the analysis of one file on which AST-using analyzers run,
\* the file's source is parsed exactly once, however many of them run.
C19_ParsedExactlyOnce ==
  (fpc = "done" /\ \E r \in FileRuns : uses_ast(r.analyzer)) => parse_count = 1

\* what the code keeps: one parse when the driver's parse succeeded
ParsedOnceWhenParsed ==
  (fpc \in {"analyze", "done"} /\ parsed_ast.some) => parse_count = 1

\* the runs that went through walk_ast_filtered
Walked(r) == ~r.panicked /\ interest_of(r.analyzer) # {}

KindIndex(kind) == CHOOSE k \in DOMAIN EventKinds : EventKinds[k] = kind

\* every event of a requested kind in the file is delivered, and no other
DeliversRequested(r) ==
  /\ \A i \in DOMAIN r.delivered : r.delivered[i].kind \in interest_of(r.analyzer)
  /\ \A p \in DOMAIN source_file.nodes :
       \A kind \in Range(NodeEvents(source_file.nodes[p])) \cap interest_of(r.analyzer) :
         \E i \in DOMAIN r.delivered : r.delivered[i] = [kind |-> kind, pos |-> p]

\* C20 as stated: a visitor receives only events of the kinds set in its
\* NodeInterest, and receives the delivered events in source order.
C20_DeliveredInSourceOrder ==
  \A r \in FileRuns :
    Walked(r) =>
      /\ DeliversRequested(r)
      /\ \A i, j \in DOMAIN r.delivered :
           i < j => r.delivered[i].pos <= r.delivered[j].pos

\* C20: a visitor receives only events of the kinds set in its NodeInterest;
\* the events of one kind arrive in source order, and the kinds arrive one
\* after the other in the order calls, member accesses, assignments,
\* destructures, string literals.
C20_SourceOrderWithinKind ==
  \A r \in FileRuns :
    Walked(r) =>
      /\ DeliversRequested(r)
      /\ \A i, j \in DOMAIN r.delivered :
           i < j =>
             IF r.delivered[i].kind = r.delivered[j].kind
             THEN r.delivered[i].pos < r.delivered[j].pos
             ELSE KindIndex(r.delivered[i].kind) < KindIndex(r.delivered[j].kind)

\* a visitor with two kinds in its interest received two events of each, and
\* an event that starts later in the source before one that starts earlier
C20_Witness ==
  \E r \in FileRuns :
    /\ Walked(r)
    /\ Cardinality(interest_of(r.analyzer)) = 2
    /\ \A kind \in interest_of(r.analyzer) :
         Cardinality({i \in DOMAIN r.delivered : r.delivered[i].kind = kind}) >= 2
    /\ \E i, j \in DOMAIN r.delivered :
         i < j /\ r.delivered[i].pos > r.delivered[j].pos


(***************************************************************************)
(* VariableMap construction: properties checked on SpecVarMap and          *)
(* SpecVarMapLive.                                                         *)
(***************************************************************************)
\* the assignments to a variable name, by position in source order
WritesTo(name) ==
  {i \in DOMAIN assignments :
     assignments[i].target = "Variable" /\ assignments[i].name = name}

\* those of them that the loop has processed
Processed(S) == S \cap DOMAIN resolutions

Latest(S) == CHOOSE i \in S : \A j \in S : j <= i

\* C21 as stated: for each name the map holds the last write in source
\* order.
C21_HoldsLastWrite ==
  vpc = "done" =>
    \A n \in VarNames :
      WritesTo(n) # {} => var_map[n] = resolutions[Latest(WritesTo(n))]

\* C21: a later assignment whose value resolves overwrites the value
\* recorded by an earlier assignment to the same name, and an assignment
\* whose value does not resolve leaves the map as it is: at every point of
\* the construction the map holds, for each name, the last write in source
\* order whose value resolved, and no value if there is none.
C21_HoldsLastResolvedWrite ==
  \A n \in VarNames :
    LET resolved == {i \in Processed(WritesTo(n)) : resolutions[i].some}
    IN  var_map[n] = IF resolved = {} THEN None ELSE resolutions[Latest(resolved)]

\* a name was written twice with values that resolved differently, and the
\* finished map holds the later one
C21_Witness ==
  /\ vpc = "done"
  /\ \E n \in VarNames :
       \E i, j \in WritesTo(n) :
         /\ i < j
         /\ resolutions[i].some /\ resolutions[j].some
         /\ resolutions[i] # resolutions[j]
         /\ j = Latest(WritesTo(n))
         /\ var_map[n] = resolutions[j]

\* the names an AssignValue mentions
RECURSIVE Mentions(_)
Mentions(value) ==
  CASE value.kind = "Identifier" -> {value.name}
    [] value.kind = "TemplateLiteral" ->
         {n \in VarNames : \E k \in DOMAIN value.text : value.text[k] = Placeholder(n)}
    [] value.kind = "BinaryExpr" -> Mentions(value.left) \cup Mentions(value.right)
    [] OTHER -> {}

\* the pieces of literal text in an AssignValue
RECURSIVE LiteralText(_)
LiteralText(value) ==
  CASE value.kind \in {"StringLiteral", "TemplateLiteral"} -> Range(value.text)
    [] value.kind = "BinaryExpr" -> LiteralText(value.left) \cup LiteralText(value.right)
    [] OTHER -> {}

\* whether a value has a string once the names in G have one; a template
\* counts as needing every name it mentions (Strict) or none
RECURSIVE ResolvableFrom(_, _, _)
ResolvableFrom(value, G, strict) ==
  CASE value.kind = "StringLiteral" -> TRUE
    [] value.kind = "TemplateLiteral" -> strict => Mentions(value) \subseteq G
    [] value.kind = "Identifier" -> value.name \in G
    [] value.kind = "BinaryExpr" ->
         /\ value.op = "+"
         /\ ResolvableFrom(value.left, G, strict)
         /\ ResolvableFrom(value.right, G, strict)
    [] OTHER -> FALSE

GroundStep(G, strict) ==
  G \cup {n \in VarNames :
            \E i \in WritesTo(n) : ResolvableFrom(assignments[i].value.value, G, strict)}

RECURSIVE GroundFrom(_, _, _)
GroundFrom(G, strict, k) == IF k = 0 THEN G ELSE GroundFrom(GroundStep(G, strict), strict, k - 1)

\* the names that have a definition not going round in a circle
Grounded(strict) == GroundFrom({}, strict, Cardinality(VarNames))

DefinedVia(n) == UNION {Mentions(assignments[i].value.value) : i \in WritesTo(n)}

\* a name defined in terms of itself, directly or through the other names,
\* with no definition that does not go round
Cyclic(n) ==
  /\ n \notin Grounded(TRUE)
  /\ \/ n \in DefinedVia(n)
     \/ \E m \in DefinedVia(n) : n \in DefinedVia(m)

\* every value in the map is made of literal text of the assignments
ValuesFromLiterals ==
  \A n \in VarNames :
    var_map[n].some =>
      Range(var_map[n].value)
        \subseteq UNION {LiteralText(assignments[i].value.value) :
                           i \in {j \in DOMAIN assignments :
                                    assignments[j].target = "Variable"}}

\* C22 as stated: the construction terminates, a cyclic definition yields no
\* resolved value, and every value is derivable from the assignments.
C22_CycleYieldsNoValue ==
  /\ <>(vpc = "done")
  /\ [](/\ \A n \in VarNames : Cyclic(n) => ~var_map[n].some
        /\ ValuesFromLiterals)

\* C22: the construction terminates for every list of assignments; a name
\* whose definitions go round in a circle through identifiers and
\* concatenations gets no value, while a template literal always gets one,
\* in which the placeholders of names without a value stay as text; every
\* value in the map is made of literal text of the assignments.
C22_TerminatesAndGrounded ==
  /\ <>(vpc = "done")
  /\ [](/\ \A n \in VarNames : var_map[n].some => n \in Grounded(FALSE)
        /\ \A n \in VarNames : (Cyclic(n) /\ var_map[n].some) =>
             \E i \in WritesTo(n) : assignments[i].value.value.kind = "TemplateLiteral"
                \/ \E m \in DefinedVia(n) : \E j \in WritesTo(m) :
                     assignments[j].value.value.kind = "TemplateLiteral"
        /\ ValuesFromLiterals)

\* both names are defined in terms of each other through identifiers and
\* concatenation, the construction has ended, and neither has a value
C22_Witness ==
  /\ vpc = "done"
  /\ \A n \in VarNames : Cyclic(n) /\ ~var_map[n].some
  /\ \E i \in WritesTo("b") : assignments[i].value.value.kind = "BinaryExpr"
  /\ \E i \in WritesTo("a") : assignments[i].value.value.kind = "Identifier"


(***************************************************************************)
(* Trust score: properties checked on SpecScore.                           *)
(***************************************************************************)
\* penalty(count, base), in thousandths
StatedPenalty(count, base) == IF count = 0 THEN 0 ELSE LnMilli(1 + count) * base * 3

NumberOf(sev) ==
  Cardinality({i \in DOMAIN score_issues : score_issues[i].severity = sev})

StatedPenaltySum ==
  StatedPenalty(NumberOf("critical"), 15) + StatedPenalty(NumberOf("high"), 8)
    + StatedPenalty(NumberOf("medium"), 3) + StatedPenalty(NumberOf("low"), 1)

\* C23: the trust score of an issue list is max(0, 100 - sum of the four
\* penalties), with penalty(count, base) = 0 for count 0 and
\* ln(1 + count) * base * 3 otherwise and bases 15, 8, 3, 1; it lies in
\* [0, 100], and the four counts are the numbers of issues of each severity.
C23_TrustScoreFormula ==
  spc = "done" =>
    LET t == trust_score.value
    IN  /\ t.score = IF StatedPenaltySum >= 100000 THEN 0 ELSE 100000 - StatedPenaltySum
        /\ t.score >= 0 /\ t.score <= 100000
        /\ t.critical_count = NumberOf("critical")
        /\ t.high_count = NumberOf("high")
        /\ t.medium_count = NumberOf("medium")
        /\ t.low_count = NumberOf("low")

\* a list with issues of every severity whose penalties exceed 100 has been
\* scored 0
C23_Witness ==
  /\ spc = "done"
  /\ StatedPenaltySum > 100000
  /\ \A k \in DOMAIN Severities : NumberOf(Severities[k]) > 0
  /\ trust_score.value.score = 0


(***************************************************************************)
(* Issue IDs: properties checked on SpecId.                                *)
(***************************************************************************)
\* the ID of the same detection at another line
IdAtLine(line) ==
  generate_issue_id(id_input.analyzer, id_input.file_path, line, id_input.message,
                    id_input.package_name)

\* every hash the model asks for is in the table
HashTabulated ==
  ipc = "done" =>
    SubSeq(issue_id.value, Len(issue_id.value) - 5, Len(issue_id.value))
      # << "0", "0", "0", "0", "0", "0" >>

\* C24: for a fixed analyzer, path, message and package, detections at lines
\* 65, 70 and 79 get the same ID and a detection at line 80 gets another;
\* two lines with the same floor(line / 20) get the same ID.
C24_LineBucketing ==
  ipc = "done" =>
    /\ \A other \in 0..MaxLine :
         other \div 20 = id_input.line \div 20 => IdAtLine(other) = issue_id.value
    /\ id_input.line \in {65, 70, 79} =>
         /\ issue_id.value = IdAtLine(65)
         /\ issue_id.value = IdAtLine(70)
         /\ issue_id.value = IdAtLine(79)
         /\ issue_id.value # IdAtLine(80)

\* the detection of test_generate_issue_id_line_tolerance at line 79 has its
\* ID, which is that of line 65 and not that of line 80
C24_Witness ==
  /\ ipc = "done"
  /\ id_input.line = 79
  /\ id_input.analyzer = << "e", "v", "a", "l" >>
  /\ id_input.package_name = Some(<< "p", "k", "g" >>)
  /\ Len(id_input.file_path) = 2
  /\ Len(id_input.message) = 2
  /\ issue_id.value = IdAtLine(65)
  /\ issue_id.value # IdAtLine(80)
  /\ Take(issue_id.value, 9) = << "P", "K", "G", "-", "E", "V", "A", "L", "-" >>


(***************************************************************************)
(* Properties of the pipeline across runs.                                 *)
(***************************************************************************)
\* the ids of ctx.ignore_issues
IgnoredNow == Range(ignore_issues)

\* C25: no result of a run, analyzed in the run or served from the cache,
\* holds an issue whose id is on the ignore list of the run.
C25_IgnoredNeverReported ==
  ~changed =>
    \A r \in ProducedResults : IssueIds(r.issues) \cap IgnoredNow = {}

\* the results analyzed in a run hold no issue whose id is on the ignore
\* list of the run
IgnoredNeverAnalyzed ==
  ~changed =>
    \A r \in Range(analyzed) : IssueIds(r.issues) \cap IgnoredNow = {}


\* the run follows a run with the cache enabled, the same sources and the
\* same active analyzers, and what that run stored is within the maximum age
RepeatsPreviousRun ==
  /\ pc \in {"analyze", "exit"}
  /\ prev.valid
  /\ prev.cache_enabled
  /\ cache_enabled
  /\ prev.content = content
  /\ prev.active = active_analyzers
  /\ now - prev.now <= CacheMaxAge

\* the package is a cache hit of the current run
ServedFromCache(p) ==
  /\ p \notin Range(work_items)
  /\ \E r \in Range(cached_results) : r.package = p /\ r.is_from_cache

\* C26: a package analyzed and cached by the previous run is served from the
\* cache, and is no work item, in a run with the same sources and the same
\* active analyzers within the maximum age, whatever its issues are.
C26_AnalyzedThenServed ==
  RepeatsPreviousRun =>
    \A p \in Pkgs : ~prev.outcome[p].is_from_cache => ServedFromCache(p)

\* such a package is served from the cache exactly when every active
\* analyzer is the type of one of the issues the previous run stored for it
ServedIffEveryAnalyzerReported ==
  RepeatsPreviousRun =>
    \A p \in Pkgs : ~prev.outcome[p].is_from_cache =>
      (ServedFromCache(p)
         <=> \A a \in active_analyzers :
               \E j \in 1..Len(prev.outcome[p].issues) :
                 prev.outcome[p].issues[j].issue_type = a)


\* some result of the run, cached or analyzed, has an issue at or above the
\* failure level in force
SomePackageFails ==
  /\ LevelInForce # "off"
  /\ has_issues_at_level(cached_results \o analyzed, LevelInForce)

\* C28: a run with fail_fast whose packages have an issue at or above the
\* failure level ends with the failure status.
C28_FailFastKeepsFailure ==
  (pc = "done" /\ fail_fast /\ SomePackageFails) => exit_status = "failure"

\* a run without fail_fast whose packages have an issue at or above the
\* failure level ends with the failure status
WithoutFailFastKeepsFailure ==
  (pc = "done" /\ ~fail_fast /\ SomePackageFails) => exit_status = "failure"


\* what the claim compares: the packages of a result vector, each with its
\* set of issue ids and its trust score
ResultView(rs) ==
  {[package |-> rs[k].package, ids |-> IssueIds(rs[k].issues),
    trust_score |-> rs[k].trust_score] : k \in 1..Len(rs)}

\* the orders in which the elements of a vector can have been pushed
CompletionOrders(rs) ==
  {[k \in 1..Len(rs) |-> rs[f[k]]] : f \in Permutations(1..Len(rs))}

\* every result of a run is determined by the input of the run alone: a
\* cache hit by the entry, the clock and the active analyzers, an analyzed
\* result by the sources, the analyzers, the overrides and the ignore list
ResultsDeterminedPerPackage ==
  ~changed =>
    /\ \A r \in Range(cached_results) : CacheLookup(r.package) = Some(r)
    /\ \A r \in Range(analyzed) :
         r = FreshResult(r.package, content[r.package], active_analyzers,
                         severity_override, ignore_issues)

\* C29: the packages a run returns, with their issue-id sets and trust
\* scores, are the same for every order in which the cache scan pushes its
\* hits and every order in which the analyses of the work items complete.
C29_SameForEveryOrder ==
  pc \in {"exit", "done"} =>
    \A c \in CompletionOrders(cached_results), a \in CompletionOrders(analyzed) :
      ResultView(Merged(c, a, fail_fast)) = ResultView(results)

\* without fail_fast the returned packages, issue-id sets and trust scores
\* are the same for every such order
SameForEveryOrderWithoutFailFast ==
  (pc \in {"exit", "done"} /\ ~fail_fast) =>
    \A c \in CompletionOrders(cached_results), a \in CompletionOrders(analyzed) :
      ResultView(Merged(c, a, fail_fast)) = ResultView(results)


(***************************************************************************)
(* Properties of the dependency classification as a whole.                 *)
(***************************************************************************)
\* the (name, type) pairs the four root loops enqueue
SeedTypes(m) ==
  LET root_deps == RootList(m, "dependencies")
      root_optional_deps == RootList(m, "optionalDependencies")
      root_dev_deps == RootList(m, "devDependencies")
      root_peer_deps == RootList(m, "peerDependencies")
  IN  {<< n, "direct" >> : n \in root_deps}
      \cup {<< n, "optional" >> : n \in root_optional_deps \ root_deps}
      \cup {<< n, "dev" >> : n \in root_dev_deps \ (root_deps \cup root_optional_deps)}
      \cup {<< n, "peer" >> : n \in root_peer_deps \ (root_deps \cup root_optional_deps
                                                       \cup root_dev_deps)}

\* the (name, type) pairs with which a package can be reached from the
\* roots under the inheritance rules: the closure of the seed under "a name
\* of a list of a package reached with type T is reached with the child
\* type of T for that list"
RECURSIVE ReachTypes(_, _)
ReachTypes(m, S) ==
  LET children(p) == {<< e[3], child_type(p[2], e[2]) >> :
                        e \in {x \in m.edges : x[1] = p[1]}}
      kept == S \cup UNION {children(p) : p \in S}
  IN  IF kept = S THEN S ELSE ReachTypes(m, kept)

\* the type of highest priority among the types a name is reached with
HighestReachType(m, name) ==
  LET types == {p[2] : p \in {q \in ReachTypes(m, SeedTypes(m)) : q[1] = name}}
  IN  CHOOSE t \in types : \A u \in types : Priority(t) >= Priority(u)

\* C27: once the graph is built the type of every classified package is the
\* type of highest priority among the types with which it can be reached
\* from the roots under the inheritance rules, whatever the order in which
\* the lists were iterated and the queue was filled.
C27_HighestReachableType ==
  dpc = "built" =>
    \A n \in DOMAIN package_types :
      package_types[n] = HighestReachType(manifest, n)

\* once the graph is built the type of every classified package is one of
\* the types with which it can be reached, and never of higher priority
\* than the highest of them
TypeIsSomeReachType ==
  dpc = "built" =>
    \A n \in DOMAIN package_types :
      << n, package_types[n] >> \in ReachTypes(manifest, SeedTypes(manifest))


\* the names of a list in alphabetical order
NameRank(name) ==
  CASE name = "a" -> 1
    [] name = "b" -> 2
    [] name = "c" -> 3
    [] OTHER -> 4

InNameOrder(S) ==
  CHOOSE q \in Orders(S) :
    \A i, j \in 1..Cardinality(S) : i < j => NameRank(q[i]) < NameRank(q[j])

\* the while loop of build, run to the end with every list iterated in
\* alphabetical order
RECURSIVE BuildInNameOrder(_, _, _, _)
BuildInNameOrder(m, q, seen, types) ==
  IF q = << >> THEN types
  ELSE LET pkg_name == Head(q).name
           dep_type == Head(q).type
       IN  IF pkg_name \in seen
           THEN BuildInNameOrder(m, Tail(q), seen,
                  IF pkg_name \in DOMAIN types /\ should_upgrade(types[pkg_name], dep_type)
                  THEN [types EXCEPT ![pkg_name] = dep_type]
                  ELSE types)
           ELSE LET now_seen == seen \cup {pkg_name}
                    open == Names \ now_seen
                    list(kind) == InNameOrder(PackageList(m, pkg_name, kind))
                    pushed ==
                      IF Installed(m, pkg_name)
                      THEN PushAll(list("dependencies"), open,
                                   child_type(dep_type, "dependencies"))
                           \o PushAll(list("optionalDependencies"), open,
                                      child_type(dep_type, "optionalDependencies"))
                           \o PushAll(list("peerDependencies"), open,
                                      child_type(dep_type, "peerDependencies"))
                           \o PushAll(list("devDependencies"), open,
                                      child_type(dep_type, "devDependencies"))
                      ELSE << >>
                IN  BuildInNameOrder(m, Tail(q) \o pushed, now_seen,
                      [n \in DOMAIN types \cup {pkg_name} |->
                         IF n = pkg_name THEN dep_type ELSE types[n]])

\* the queue after the four root loops, the root lists in alphabetical order
SeedInNameOrder(m) ==
  LET root_deps == RootList(m, "dependencies")
      root_optional_deps == RootList(m, "optionalDependencies")
      root_dev_deps == RootList(m, "devDependencies")
      root_peer_deps == RootList(m, "peerDependencies")
  IN  PushAll(InNameOrder(root_deps), Names, "direct")
      \o PushAll(InNameOrder(root_optional_deps), Names \ root_deps, "optional")
      \o PushAll(InNameOrder(root_dev_deps),
                 Names \ (root_deps \cup root_optional_deps), "dev")
      \o PushAll(InNameOrder(root_peer_deps),
                 Names \ (root_deps \cup root_optional_deps \cup root_dev_deps), "peer")

\* the types of the built graph are those of the build that iterates every
\* list in alphabetical order: the order of the lists does not show
SameTypesForEveryOrder ==
  dpc = "built" =>
    package_types = BuildInNameOrder(manifest, SeedInNameOrder(manifest), {}, << >>)

\* no package's lists are expanded twice
ExpandedAtMostOnce ==
  \A e1, e2 \in expansions : e1.name = e2.name => e1 = e2

\* C30: the classification terminates for every manifest, with lists that
\* hold the package's own name and with cycles among the packages, and the
\* lists of a package are expanded at most once.
C30_TerminatesExpandingOnce ==
  /\ <>(dpc = "built")
  /\ [] ExpandedAtMostOnce

\* the graph is built from a manifest in which a classified package lists
\* itself and two classified packages list each other
C30_Witness ==
  /\ dpc = "built"
  /\ \E e \in manifest.edges : e[1] = e[3] /\ e[1] \in visited
  /\ \E e, f \in manifest.edges :
       /\ e[1] # e[3]
       /\ e[1] = f[3]
       /\ e[3] = f[1]
       /\ e[1] \in visited

=============================================================================
